---- MODULE Spec2Model ----
(***************************************************************************)
(* Guarded request construction of crypto-pay-api: the typestate builders  *)
(* of src/api and src/models, their field validation, the exchange-rate    *)
(* fetch, the context validation of the amount and the operation request.  *)
(*                                                                         *)
(* The webhook side (src/webhook): the handler's configuration, signature   *)
(* verification, handle_update and the axum middleware, under WebhookSpec.  *)
(*                                                                         *)
(* One draft is under construction at a time.  Strings whose content the   *)
(* code never inspects are represented by their chars().count(); the paid  *)
(* button URL is a sequence of characters because the code inspects its    *)
(* prefix.  A Decimal is a mantissa and a scale, as in rust_decimal.       *)
(***************************************************************************)
EXTENDS Integers, Sequences, FiniteSets, TLC

VARIABLES
    kind,     \* the builder type of the current draft
    draft,    \* the builder's fields
    marks,    \* the builder's PhantomData typestate: parameter -> Missing/Set
    pc,       \* position of the draft: building, await_rates, await_op, done
    net,      \* the requests this finalize has issued, in order
    ctx,      \* Option<ValidationContext> built by this finalize
    params,   \* Option<finalized request> (sent by execute, returned by build)
    result,   \* Option<CryptoBotResult> of this finalize
    fetched,  \* Option<body of the response to this finalize's rate request>
    cfg,      \* Option<WebhookHandlerConfigBuilder>
    handler,  \* Option<WebhookHandler>
    wpc,      \* position of the webhook side: start, config, idle, the stages of a call
    req,      \* Option<the inbound request or call being processed>
    update,   \* Option<WebhookUpdate> parsed by this call
    stages,   \* the stages this call has passed, in order
    invoked,  \* the callbacks this call has invoked, in order
    answered, \* Option<what the invoked callback returned>
    outcome,  \* Option<what the call returned>
    client,   \* Option<CryptoBot> shared by concurrent calls
    calls,    \* the concurrent calls: call id -> its own state
    wire,     \* Option<the JSON body serialized from the finalized params>
    clock,    \* Option<the instant Utc::now() returns>
    runs,     \* the validate(&self) calls made on the draft, in order
    decoded,  \* Option<what serde returned for the response body just read>
    trail     \* setter -> Option<the value of its latest call on this draft>

\* the webhook handler's side of the state
wvars == <<cfg, handler, wpc, req, update, stages, invoked, answered, outcome>>

\* the state of concurrent calls on a shared client and handler, and the
\* serialized body
cvars == <<client, calls, wire, clock, runs, decoded>>

vars == <<kind, draft, marks, pc, net, ctx, params, result, fetched,
          cfg, handler, wpc, req, update, stages, invoked, answered, outcome,
          client, calls, wire, clock, runs, decoded, trail>>

----------------------------------------------------------------------------
(* Option<T> *)

None == <<>>

Some(x) == <<x>>

IsSome(o) == o # <<>>

IsNone(o) == o = <<>>

Unwrap(o) == o[1]

----------------------------------------------------------------------------
(* rust_decimal::Decimal: value = m * 10^(-e) *)

Dec(m, e) == [m |-> m, e |-> e]

RECURSIVE Pow10(_)
Pow10(n) == IF n = 0 THEN 1 ELSE 10 * Pow10(n - 1)

DecZero == Dec(0, 0)

DecOne == Dec(1, 0)

DecFrom(n) == Dec(n, 0)

DecMul(a, b) == Dec(a.m * b.m, a.e + b.e)

DecLt(a, b) == a.m * Pow10(b.e) < b.m * Pow10(a.e)

DecGt(a, b) == DecLt(b, a)

DecLe(a, b) == ~DecLt(b, a)

----------------------------------------------------------------------------
(* CryptoBotResult / CryptoBotError *)

Ok == [ok |-> TRUE, err |-> "", kind |-> "", field |-> "", message |-> ""]

ValidationError(k, msg, fld) ==
    [ok |-> FALSE, err |-> "ValidationError", kind |-> k, field |-> fld, message |-> msg]

HttpError == [ok |-> FALSE, err |-> "HttpError", kind |-> "", field |-> "", message |-> ""]

ApiError == [ok |-> FALSE, err |-> "ApiError", kind |-> "", field |-> "", message |-> ""]

NoResult == [ok |-> FALSE, err |-> "NoResult", kind |-> "", field |-> "", message |-> ""]

\* the errors make_request can return
RequestErrors == {HttpError, ApiError, NoResult}

----------------------------------------------------------------------------
(* Program constants *)

MaxUsd == 25000

MaxDescription == 1024

MaxHiddenMessage == 2048

MaxPayload == 4096

MaxExpiresIn == 2678400

MaxCount == 1000

MaxSpendId == 64

MaxComment == 1024

----------------------------------------------------------------------------
(* Input domains *)

\* how far beyond a ceiling the lengths and numbers tried reach
Over == 1

Assets == {"TON", "BTC"}

Fiats == {"USD"}

\* -1, 0, 0.499, 0.5, 2, 12500, 12500.01
Amounts == {Dec(0 - 1, 0), Dec(0, 0), Dec(499, 3), Dec(5, 1), Dec(2, 0),
            Dec(12500, 0), Dec(1250001, 2)}

Rate(src, tgt, r, valid) == [source |-> src, target |-> tgt, rate |-> r, is_valid |-> valid]

\* the snapshots the service may answer with (ordered collections of rates)
Snapshots ==
    { <<>>,
      << Rate("TON", "USD", Dec(20, 1), TRUE) >>,
      << Rate("BTC", "USD", Dec(5, 1), TRUE), Rate("TON", "EUR", Dec(20, 1), TRUE) >>,
      << Rate("TON", "EUR", Dec(20, 1), TRUE), Rate("TON", "USD", Dec(5, 1), FALSE),
         Rate("TON", "USD", Dec(20, 1), TRUE), Rate("BTC", "USD", Dec(20, 1), TRUE) >> }

Lengths(limit) == limit..(limit + Over)

Urls ==
    { <<"h", "t", "t", "p", "s", ":", "/", "/", "x">>,
      <<"h", "t", "t", "p", ":", "/", "/", "x">>,
      <<"f", "t", "p", ":", "/", "/", "x">> }

PayButtonNames == {"viewItem"}

ExpiresIns == {0, 1} \cup (MaxExpiresIn..(MaxExpiresIn + Over))

Counts == {0, 1} \cup (MaxCount..(MaxCount + Over))

UserIds == {7}

SpendIds == Lengths(MaxSpendId)

\* invoice_id / check_id handed to delete_invoice / delete_check
Ids == {1, 2}

\* instants (DateTime<Utc>) for start_at, end_at and the clock
Times == {1, 2, 3}

----------------------------------------------------------------------------
(* The builders *)

\* typestate builders with an amount: src/api and src/models
InvoiceBuilders == {"CreateInvoiceBuilder", "CreateInvoiceParamsBuilder"}

CheckBuilders == {"CreateCheckBuilder", "CreateCheckParamsBuilder"}

TransferBuilders == {"TransferBuilder", "TransferParamsBuilder"}

\* builders whose finalize is execute(): it sends the operation request
ApiBuilders == {"CreateInvoiceBuilder", "CreateCheckBuilder", "TransferBuilder"}

\* builders whose finalize is build(client): it returns the params
ParamsBuilders == {"CreateInvoiceParamsBuilder", "CreateCheckParamsBuilder",
                   "TransferParamsBuilder"}

GetApiBuilders == {"GetInvoicesBuilder", "GetChecksBuilder", "GetTransfersBuilder"}

GetParamsBuilders == {"GetInvoicesParamsBuilder", "GetChecksParamsBuilder",
                      "GetTransfersParamsBuilder"}

GetBuilders == GetApiBuilders \cup GetParamsBuilders

\* the plain params struct with unrestricted setters and a runtime validate()
PlainInvoice == "CreateInvoiceParams"

InvoiceKinds == InvoiceBuilders \cup {PlainInvoice}

AmountKinds == InvoiceKinds \cup CheckBuilders \cup TransferBuilders

DeleteBuilders == {"DeleteInvoiceBuilder", "DeleteCheckBuilder"}

StatsBuilder == "GetStatsParamsBuilder"

\* request types without an amount field
NoAmountKinds == GetBuilders \cup DeleteBuilders \cup {StatsBuilder}

Kinds == AmountKinds \cup NoAmountKinds

Missing == "Missing"

Set == "Set"

NewInvoice ==
    [currency_type |-> Some("crypto"), asset |-> None, fiat |-> None,
     amount |-> DecZero, description |-> None, hidden_message |-> None,
     paid_btn_name |-> None, paid_btn_url |-> None, payload |-> None,
     expires_in |-> None]

DefaultInvoiceParams == [NewInvoice EXCEPT !.asset = Some("TON")]

NewCheck == [asset |-> "TON", amount |-> DecZero]

NewTransfer ==
    [user_id |-> 0, asset |-> "TON", amount |-> DecZero, spend_id |-> 0,
     comment |-> None]

NewGet == [asset |-> None, count |-> None]

NewDelete(id) == [id |-> id]

NewStats == [start_at |-> None, end_at |-> None]

NewDraft(k) ==
    IF k \in InvoiceBuilders THEN NewInvoice
    ELSE IF k = PlainInvoice THEN DefaultInvoiceParams
    ELSE IF k \in CheckBuilders THEN NewCheck
    ELSE IF k \in TransferBuilders THEN NewTransfer
    ELSE IF k = StatsBuilder THEN NewStats
    ELSE NewGet

\* the drafts new() can return: the delete builders take their id in new()
NewDrafts(k) ==
    IF k \in DeleteBuilders THEN {NewDelete(i) : i \in Ids} ELSE {NewDraft(k)}

\* the type parameters of each typestate builder, all Missing after new()
TypeParams(k) ==
    IF k \in InvoiceBuilders THEN {"A", "C", "P", "U"}
    ELSE IF k \in CheckBuilders THEN {"A", "M"}
    ELSE IF k \in TransferBuilders THEN {"U", "A", "M", "S"}
    ELSE {}

NewMarks(k) == [p \in TypeParams(k) |-> Missing]

\* the type parameter a setter is declared on (impl<..> Builder<.., Missing, ..>)
AmountParam(k) == IF k \in InvoiceBuilders THEN "A" ELSE "M"

AssetParam(k) == IF k \in InvoiceBuilders THEN "C" ELSE "A"

\* a setter of parameter p is callable: its impl block requires p = Missing;
\* builders without typestate accept every setter at any time
Callable(k, m, p) == p \in DOMAIN m => m[p] = Missing

\* mutant: a setter marks every parameter
MarkEvery(m, p) == [q \in DOMAIN m |-> Set]

Mark(m, p) == IF p \in DOMAIN m THEN [m EXCEPT ![p] = Set] ELSE m

----------------------------------------------------------------------------
(* Field Validator *)

StartsWith(s, prefix) ==
    /\ Len(s) >= Len(prefix)
    /\ SubSeq(s, 1, Len(prefix)) = prefix

Https == <<"h", "t", "t", "p", "s", ":", "/", "/">>

Http == <<"h", "t", "t", "p", ":", "/", "/">>

\* if let Some(s) = field { if s.chars().count() > limit { return Err(..) } }
TooLong(field, limit) == IsSome(field) /\ Unwrap(field) > limit

\* if !(&1..=&2678400).contains(&expires_in)
ExpiresInInvalid(e) == IsSome(e) /\ ~(1 <= Unwrap(e) /\ Unwrap(e) <= MaxExpiresIn)

\* mutant: the payload ceiling is not checked
InvoiceOptionalChecksNoPayload(d, descMsg) ==
    IF TooLong(d.description, MaxDescription)
        THEN ValidationError("Range", descMsg, "description")
    ELSE IF TooLong(d.hidden_message, MaxHiddenMessage)
        THEN ValidationError("Range", "hidden_message_too_long", "hidden_message")
    ELSE IF ExpiresInInvalid(d.expires_in)
        THEN ValidationError("Range", "expires_in_invalid", "expires_in")
    ELSE Ok

\* the description, hidden_message, payload and expires_in checks that follow
\* the amount check in both typestate invoice builders
InvoiceOptionalChecks(d, descMsg) ==
    IF TooLong(d.description, MaxDescription)
        THEN ValidationError("Range", descMsg, "description")
    ELSE IF TooLong(d.hidden_message, MaxHiddenMessage)
        THEN ValidationError("Range", "hidden_message_too_long", "hidden_message")
    ELSE IF TooLong(d.payload, MaxPayload)
        THEN ValidationError("Range", "payload_too_long", "payload")
    ELSE IF ExpiresInInvalid(d.expires_in)
        THEN ValidationError("Range", "expires_in_invalid", "expires_in")
    ELSE Ok

AmountError == ValidationError("Range", "Amount must be greater than 0", "amount")

\* api::CreateInvoiceBuilder: self.amount <= Decimal::ZERO
ApiInvoiceValidate(d) ==
    IF DecLe(d.amount, DecZero) THEN AmountError
    ELSE InvoiceOptionalChecks(d, "description too long")

\* models::CreateInvoiceParamsBuilder: self.amount < Decimal::ZERO
ParamsInvoiceValidate(d) ==
    IF DecLt(d.amount, DecZero) THEN AmountError
    ELSE InvoiceOptionalChecks(d, "description_too_long")

\* api::CreateCheckBuilder: self.amount <= Decimal::ZERO
ApiCheckValidate(d) == IF DecLe(d.amount, DecZero) THEN AmountError ELSE Ok

\* models::CreateCheckParamsBuilder: self.amount < Decimal::ZERO
ParamsCheckValidate(d) == IF DecLt(d.amount, DecZero) THEN AmountError ELSE Ok

ApiTransferValidate(d) ==
    IF d.spend_id > MaxSpendId
        THEN ValidationError("Range", "Spend ID must be at most 64 symbols", "spend_id")
    ELSE IF TooLong(d.comment, MaxComment)
        THEN ValidationError("Range", "Comment must be at most 1024 symbols", "comment")
    ELSE Ok

ParamsTransferValidate(d) ==
    IF d.spend_id > MaxSpendId
        THEN ValidationError("Range", "Spend ID must be less than 64 symbols", "spend_id")
    ELSE IF TooLong(d.comment, MaxComment)
        THEN ValidationError("Range", "Comment must be less than 1024 symbols", "comment")
    ELSE Ok

\* the paid_btn_url check of execute/build on <Set, Set, Set, Set>
PaidBtnUrlInvalid(d) ==
    /\ IsSome(d.paid_btn_url)
    /\ ~StartsWith(Unwrap(d.paid_btn_url), Https)
    /\ ~StartsWith(Unwrap(d.paid_btn_url), Http)

UrlError == ValidationError("Format", "paid_btn_url_invalid", "paid_btn_url")

MissingError(fld, msg) == ValidationError("Missing", msg, fld)

\* mutant: the paid button dependency is not checked
PlainInvoiceValidateNoDependency(d) ==
    IF d.currency_type = Some("crypto") /\ IsNone(d.asset)
        THEN MissingError("asset", "asset is required if currency_type is crypto")
    ELSE IF d.currency_type = Some("fiat") /\ IsNone(d.fiat)
        THEN MissingError("fiat", "fiat is required if currency_type is fiat")
    ELSE IF DecLt(d.amount, DecZero) THEN AmountError
    ELSE IF TooLong(d.description, MaxDescription)
        THEN ValidationError("Range", "description_too_long", "description")
    ELSE IF TooLong(d.hidden_message, MaxHiddenMessage)
        THEN ValidationError("Range", "hidden_message_too_long", "hidden_message")
    ELSE IF IsSome(d.paid_btn_name) /\ PaidBtnUrlInvalid(d) THEN UrlError
    ELSE IF TooLong(d.payload, MaxPayload)
        THEN ValidationError("Range", "payload_too_long", "payload")
    ELSE IF ExpiresInInvalid(d.expires_in)
        THEN ValidationError("Range", "expires_in_invalid", "expires_in")
    ELSE Ok

\* models::CreateInvoiceParams (plain struct): the runtime validate()
PlainInvoiceValidate(d) ==
    IF d.currency_type = Some("crypto") /\ IsNone(d.asset)
        THEN MissingError("asset", "asset is required if currency_type is crypto")
    ELSE IF d.currency_type = Some("fiat") /\ IsNone(d.fiat)
        THEN MissingError("fiat", "fiat is required if currency_type is fiat")
    ELSE IF DecLt(d.amount, DecZero) THEN AmountError
    ELSE IF TooLong(d.description, MaxDescription)
        THEN ValidationError("Range", "description_too_long", "description")
    ELSE IF TooLong(d.hidden_message, MaxHiddenMessage)
        THEN ValidationError("Range", "hidden_message_too_long", "hidden_message")
    ELSE IF IsSome(d.paid_btn_name) /\ IsNone(d.paid_btn_url)
        THEN MissingError("paid_btn_url",
                          "paid_btn_url is required when paid_btn_name is provided")
    ELSE IF IsNone(d.paid_btn_name) /\ IsSome(d.paid_btn_url)
        THEN MissingError("paid_btn_name",
                          "paid_btn_name is required when paid_btn_url is provided")
    ELSE IF IsSome(d.paid_btn_name) /\ PaidBtnUrlInvalid(d) THEN UrlError
    ELSE IF TooLong(d.payload, MaxPayload)
        THEN ValidationError("Range", "payload_too_long", "payload")
    ELSE IF ExpiresInInvalid(d.expires_in)
        THEN ValidationError("Range", "expires_in_invalid", "expires_in")
    ELSE Ok

\* mutant: the range starts at 0
validate_count_from_zero(count) ==
    IF ~(0 <= count /\ count <= MaxCount)
        THEN ValidationError("Range", "Count must be between 1 and 1000", "count")
    ELSE Ok

\* validate_count: !(1..=1000).contains(&count)
validate_count(count) ==
    IF ~(1 <= count /\ count <= MaxCount)
        THEN ValidationError("Range", "Count must be between 1 and 1000", "count")
    ELSE Ok

\* if let Some(count) = self.params.count { validate_count(count)?; }
GetValidate(d) == IF IsSome(d.count) THEN validate_count(Unwrap(d.count)) ELSE Ok

\* mutant: the end_at check is made before the start_at check
StatsValidateEndFirst(d, now) ==
    IF IsSome(d.start_at) /\ IsSome(d.end_at) /\ Unwrap(d.end_at) < Unwrap(d.start_at)
        THEN ValidationError("Range", "end_at cannot be earlier than start_at", "end_at")
    ELSE IF IsSome(d.start_at) /\ Unwrap(d.start_at) > now
        THEN ValidationError("Range", "start_at cannot be in the future", "start_at")
    ELSE Ok

\* GetStatsParamsBuilder::validate, with now = Utc::now()
StatsValidate(d, now) ==
    IF IsSome(d.start_at) /\ Unwrap(d.start_at) > now
        THEN ValidationError("Range", "start_at cannot be in the future", "start_at")
    ELSE IF IsSome(d.start_at) /\ IsSome(d.end_at) /\ Unwrap(d.end_at) < Unwrap(d.start_at)
        THEN ValidationError("Range", "end_at cannot be earlier than start_at", "end_at")
    ELSE Ok

\* FieldValidate::validate of the typestate builders
validate(k, d) ==
    CASE k = "CreateInvoiceBuilder" -> ApiInvoiceValidate(d)
      [] k = "CreateInvoiceParamsBuilder" -> ParamsInvoiceValidate(d)
      [] k = "CreateCheckBuilder" -> ApiCheckValidate(d)
      [] k = "CreateCheckParamsBuilder" -> ParamsCheckValidate(d)
      [] k = "TransferBuilder" -> ApiTransferValidate(d)
      [] k = "TransferParamsBuilder" -> ParamsTransferValidate(d)

\* mutant: the paid_btn_url scheme check is left out
LocalChecksNoUrl(k, d, m) == validate(k, d)

\* the synchronous part of execute/build before the rate fetch: validate()?
\* and, on <Set, Set, Set, Set> only, the paid_btn_url scheme check
LocalChecks(k, d, m) ==
    IF ~validate(k, d).ok THEN validate(k, d)
    ELSE IF k \in InvoiceBuilders /\ m["P"] = Set /\ m["U"] = Set /\ PaidBtnUrlInvalid(d)
        THEN UrlError
    ELSE Ok

----------------------------------------------------------------------------
(* Context Validator *)

\* mutant: the target currency is not compared
MatchesAnyTarget(rate, asset) == rate.source = asset

Matches(rate, asset) == rate.source = asset /\ rate.target = "USD"

\* mutant: entries whose is_valid flag is false are passed over
FindRateValidOnly(rates, asset) ==
    IF \E i \in 1..Len(rates) : Matches(rates[i], asset) /\ rates[i].is_valid
        THEN LET i == CHOOSE j \in 1..Len(rates) :
                        /\ Matches(rates[j], asset) /\ rates[j].is_valid
                        /\ \A h \in 1..(j - 1) : ~(Matches(rates[h], asset) /\ rates[h].is_valid)
             IN  Some(rates[i])
    ELSE None

\* ctx.exchange_rates.iter().find(..): the first matching entry, if any
FindRate(rates, asset) ==
    IF \E i \in 1..Len(rates) : Matches(rates[i], asset)
        THEN LET i == CHOOSE j \in 1..Len(rates) :
                        /\ Matches(rates[j], asset)
                        /\ \A h \in 1..(j - 1) : ~Matches(rates[h], asset)
             IN  Some(rates[i])
    ELSE None

RateNotFound == MissingError("exchange_rate", "exchange_rate_not_found")

UsdRangeError == ValidationError("Range", "Amount must be between 1 and 25000 USD", "amount")

\* mutant: the bounds are exclusive
validate_amount_exclusive(amount, asset, rates) ==
    LET usd_rate == FindRate(rates, asset) IN
    IF IsNone(usd_rate) THEN RateNotFound
    ELSE LET usd_value == DecMul(amount, Unwrap(usd_rate).rate) IN
         IF DecLe(usd_value, DecOne) \/ ~DecLt(usd_value, DecFrom(MaxUsd))
             THEN UsdRangeError
         ELSE Ok

validate_amount(amount, asset, rates) ==
    LET usd_rate == FindRate(rates, asset) IN
    IF IsNone(usd_rate) THEN RateNotFound
    ELSE LET usd_value == DecMul(amount, Unwrap(usd_rate).rate) IN
         IF DecLt(usd_value, DecOne) \/ DecGt(usd_value, DecFrom(MaxUsd))
             THEN UsdRangeError
         ELSE Ok

\* mutant: a draft priced in fiat is held to the same bound, its amount read
\* as an amount of the first accepted asset
validate_with_context_fiat_bound(k, d, rates) ==
    IF k \in InvoiceKinds
        THEN validate_amount(d.amount, IF IsSome(d.asset) THEN Unwrap(d.asset) ELSE "TON", rates)
    ELSE validate_amount(d.amount, d.asset, rates)

\* ContextValidate::validate_with_context: the invoice builders validate only
\* when an asset is present; checks and transfers always validate
validate_with_context(k, d, rates) ==
    IF k \in InvoiceKinds
        THEN IF IsSome(d.asset) THEN validate_amount(d.amount, Unwrap(d.asset), rates)
             ELSE Ok
    ELSE validate_amount(d.amount, d.asset, rates)

----------------------------------------------------------------------------
(* Initial state: a builder fresh from new() *)

\* the setters of every builder, by the field they assign
Setters ==
    {"amount", "asset", "fiat", "currency_type", "paid_btn_name", "paid_btn_url",
     "description", "hidden_message", "payload", "expires_in", "user_id",
     "spend_id", "comment", "count", "start_at", "end_at", "ids", "accept_asset"}

\* the setter call of a builder is noted with the value it was given; the
\* plain struct has no builder, its fields are assigned directly
Logs(setter, value) ==
    trail' = IF kind = "CreateInvoiceParams" THEN trail
             ELSE [trail EXCEPT ![setter] = Some(value)]

\* no setter has been called on a fresh draft
NoTrail == [s \in Setters |-> None]

Init ==
    /\ kind \in Kinds
    /\ draft \in NewDrafts(kind)
    /\ marks = NewMarks(kind)
    /\ pc = "building"
    /\ net = <<>>
    /\ ctx = None
    /\ params = None
    /\ result = None
    /\ fetched = None
    /\ cfg = None
    /\ handler = None
    /\ wpc = "start"
    /\ req = None
    /\ update = None
    /\ stages = <<>>
    /\ invoked = <<>>
    /\ answered = None
    /\ outcome = None
    /\ client = None
    /\ calls = <<>>
    /\ wire = None
    /\ clock = Some(1)
    /\ runs = <<>>
    /\ decoded = None
    /\ trail = NoTrail

----------------------------------------------------------------------------
(* Setters *)

\* mutant: the setters stay available after finalize
EditableAlways == TRUE

\* a setter takes the builder by value: it exists only while the draft has not
\* been consumed.  validate(&self) of the plain struct borrows, so the struct
\* stays editable after it; the earlier verdict is then dropped.
Editable ==
    \/ pc = "building"
    \/ kind = PlainInvoice /\ pc = "validated"

Edited(d, m) ==
    /\ draft' = d
    /\ marks' = m
    /\ pc' = "building"
    /\ result' = None
    /\ UNCHANGED <<kind, net, ctx, params, fetched>>
    /\ UNCHANGED <<wvars, cvars>>

SetAmount(a) ==
    /\ kind \in AmountKinds
    /\ Editable
    /\ Logs("amount", a)
    /\ Callable(kind, marks, AmountParam(kind))
    /\ Edited([draft EXCEPT !.amount = a], Mark(marks, AmountParam(kind)))

SetAsset(x) ==
    /\ kind \in AmountKinds \cup GetBuilders
    /\ Editable
    /\ Logs("asset", x)
    /\ Callable(kind, marks, AssetParam(kind))
    /\ LET d == IF kind \in InvoiceBuilders
                    THEN [draft EXCEPT !.currency_type = Some("crypto"), !.asset = Some(x)]
                ELSE IF kind \in CheckBuilders \cup TransferBuilders
                    THEN [draft EXCEPT !.asset = x]
                ELSE [draft EXCEPT !.asset = Some(x)]
       IN  Edited(d, Mark(marks, AssetParam(kind)))

\* mutant: fiat() leaves currency_type at its default
SetFiatKeepsType(f) ==
    /\ kind \in InvoiceKinds
    /\ Editable
    /\ Logs("fiat", f)
    /\ Callable(kind, marks, "C")
    /\ Edited([draft EXCEPT !.fiat = Some(f)], Mark(marks, "C"))

SetFiat(f) ==
    /\ kind \in InvoiceKinds
    /\ Editable
    /\ Logs("fiat", f)
    /\ Callable(kind, marks, "C")
    /\ LET d == IF kind \in InvoiceBuilders
                    THEN [draft EXCEPT !.currency_type = Some("fiat"), !.fiat = Some(f)]
                ELSE [draft EXCEPT !.fiat = Some(f)]
       IN  Edited(d, Mark(marks, "C"))

SetCurrencyType(t) ==
    /\ kind = PlainInvoice
    /\ Editable
    /\ Logs("currency_type", t)
    /\ Edited([draft EXCEPT !.currency_type = Some(t)], marks)

SetPaidBtnName(n) ==
    /\ kind \in InvoiceKinds
    /\ Editable
    /\ Logs("paid_btn_name", n)
    /\ Callable(kind, marks, "P")
    /\ Edited([draft EXCEPT !.paid_btn_name = Some(n)], Mark(marks, "P"))

\* impl<'a, A, C> CreateInvoiceBuilder<'a, A, C, Set, Missing>
SetPaidBtnUrl(u) ==
    /\ kind \in InvoiceKinds
    /\ Editable
    /\ Logs("paid_btn_url", u)
    /\ kind \in InvoiceBuilders => marks["P"] = Set /\ marks["U"] = Missing
    /\ Edited([draft EXCEPT !.paid_btn_url = Some(u)], Mark(marks, "U"))

SetDescription(n) ==
    /\ kind \in InvoiceKinds
    /\ Editable
    /\ Logs("description", n)
    /\ Edited([draft EXCEPT !.description = Some(n)], marks)

SetHiddenMessage(n) ==
    /\ kind \in InvoiceKinds
    /\ Editable
    /\ Logs("hidden_message", n)
    /\ Edited([draft EXCEPT !.hidden_message = Some(n)], marks)

SetPayload(n) ==
    /\ kind \in InvoiceKinds
    /\ Editable
    /\ Logs("payload", n)
    /\ Edited([draft EXCEPT !.payload = Some(n)], marks)

SetExpiresIn(e) ==
    /\ kind \in InvoiceKinds
    /\ Editable
    /\ Logs("expires_in", e)
    /\ Edited([draft EXCEPT !.expires_in = Some(e)], marks)

SetUserId(u) ==
    /\ kind \in TransferBuilders
    /\ Editable
    /\ Logs("user_id", u)
    /\ Callable(kind, marks, "U")
    /\ Edited([draft EXCEPT !.user_id = u], Mark(marks, "U"))

SetSpendId(n) ==
    /\ kind \in TransferBuilders
    /\ Editable
    /\ Logs("spend_id", n)
    /\ Callable(kind, marks, "S")
    /\ Edited([draft EXCEPT !.spend_id = n], Mark(marks, "S"))

\* mutant: a comment once set is kept
SetCommentFirstWins(n) ==
    /\ kind \in TransferBuilders
    /\ Editable
    /\ Logs("comment", n)
    /\ Edited(IF IsSome(draft.comment) THEN draft ELSE [draft EXCEPT !.comment = Some(n)],
              marks)

SetComment(n) ==
    /\ kind \in TransferBuilders
    /\ Editable
    /\ Logs("comment", n)
    /\ Edited([draft EXCEPT !.comment = Some(n)], marks)

SetCount(c) ==
    /\ kind \in GetBuilders
    /\ Editable
    /\ Logs("count", c)
    /\ Edited([draft EXCEPT !.count = Some(c)], marks)

SetStartAt(t) ==
    /\ kind = StatsBuilder
    /\ Editable
    /\ Logs("start_at", t)
    /\ Edited([draft EXCEPT !.start_at = Some(t)], marks)

SetEndAt(t) ==
    /\ kind = StatsBuilder
    /\ Editable
    /\ Logs("end_at", t)
    /\ Edited([draft EXCEPT !.end_at = Some(t)], marks)

----------------------------------------------------------------------------
(* Finalize: execute / build *)

Request(endpoint, method) == [endpoint |-> endpoint, method |-> method]

RatesRequest == Request("getExchangeRates", "GET")

OperationOf(k) ==
    CASE k = "CreateInvoiceBuilder" -> Request("createInvoice", "POST")
      [] k = "CreateCheckBuilder" -> Request("createCheck", "POST")
      [] k = "TransferBuilder" -> Request("transfer", "POST")
      [] k = "GetInvoicesBuilder" -> Request("getInvoices", "GET")
      [] k = "GetChecksBuilder" -> Request("getChecks", "GET")
      [] k = "GetTransfersBuilder" -> Request("getTransfers", "GET")
      [] k = "DeleteInvoiceBuilder" -> Request("deleteInvoice", "DELETE")
      [] k = "DeleteCheckBuilder" -> Request("deleteCheck", "DELETE")
      [] k = "GetStatsParamsBuilder" -> Request("getStats", "GET")

\* mutant: execute/build implemented on every typestate
CanFinalizeAnyState(k, m) == TRUE

\* the typestates on which execute/build is implemented
CanFinalize(k, m) ==
    IF k \in InvoiceBuilders
        THEN /\ m["A"] = Set
             /\ m["C"] = Set
             /\ \/ m["P"] = Missing /\ m["U"] = Missing
                \/ m["P"] = Set /\ m["U"] = Set
    ELSE \A p \in DOMAIN m : m[p] = Set

\* the params struct execute/build fills from the builder's fields
FinalizedParams(k, d) ==
    IF k \in InvoiceBuilders
        THEN [currency_type |-> d.currency_type, asset |-> d.asset, fiat |-> d.fiat,
              amount |-> d.amount, description |-> d.description,
              hidden_message |-> d.hidden_message, paid_btn_name |-> d.paid_btn_name,
              paid_btn_url |-> d.paid_btn_url, payload |-> d.payload,
              expires_in |-> d.expires_in]
    ELSE IF k \in CheckBuilders
        THEN [asset |-> d.asset, amount |-> d.amount]
    ELSE IF k \in TransferBuilders
        THEN [user_id |-> d.user_id, asset |-> d.asset, amount |-> d.amount,
              spend_id |-> d.spend_id, comment |-> d.comment]
    ELSE IF k \in DeleteBuilders THEN [id |-> d.id]
    ELSE IF k = StatsBuilder THEN [start_at |-> d.start_at, end_at |-> d.end_at]
    ELSE [asset |-> d.asset, count |-> d.count]

Fail(r) ==
    /\ result' = Some(r)
    /\ pc' = "done"

\* mutant: a pre-seeded snapshot is used instead of the response
FetchedRatesSeeded(response) == << Rate("TON", "USD", Dec(20, 1), TRUE) >>

\* ExchangeRateAPI::get_exchange_rates: the Vec<ExchangeRate> of the response
\* to this call's GET
FetchedRates(response) == response

\* execute()/build() up to its first await: the local checks, then the
\* getExchangeRates request is issued
Finalize ==
    /\ kind \in ApiBuilders \cup ParamsBuilders
    /\ pc = "building"
    /\ CanFinalize(kind, marks)
    /\ LET r == LocalChecks(kind, draft, marks) IN
       IF ~r.ok
           THEN Fail(r) /\ UNCHANGED net
       ELSE /\ net' = Append(net, RatesRequest)
            /\ pc' = "await_rates"
            /\ UNCHANGED result
    /\ UNCHANGED <<kind, draft, marks, ctx, params, fetched>>
    /\ UNCHANGED <<wvars, cvars, trail>>

\* the getExchangeRates call returns: `?` propagates its error; otherwise the
\* context is built from the response, validate_with_context runs and, when
\* it passes, the params are filled and (execute only) the operation is sent
RatesResponse ==
    /\ pc = "await_rates"
    /\ \E response \in {Some(s) : s \in Snapshots} \cup {None} :
         IF IsNone(response)
             THEN /\ \E e \in RequestErrors : Fail(e)
                  /\ UNCHANGED <<ctx, params, net, fetched>>
         ELSE LET rates == FetchedRates(Unwrap(response))
                  r == validate_with_context(kind, draft, rates)
              IN  /\ fetched' = response
                  /\ ctx' = Some(rates)
                  /\ IF ~r.ok
                         THEN Fail(r) /\ UNCHANGED <<params, net>>
                     ELSE /\ params' = Some(FinalizedParams(kind, draft))
                          /\ IF kind \in ApiBuilders
                                 THEN /\ net' = Append(net, OperationOf(kind))
                                      /\ pc' = "await_op"
                                      /\ UNCHANGED result
                             ELSE /\ result' = Some(Ok)
                                  /\ pc' = "done"
                                  /\ UNCHANGED net
    /\ UNCHANGED <<kind, draft, marks>>
    /\ UNCHANGED <<wvars, cvars, trail>>

\* the operation request returns
OperationResponse ==
    /\ pc = "await_op"
    /\ \E r \in {Ok} \cup RequestErrors :
         /\ result' = Some(r)
         /\ pc' = "done"
    /\ UNCHANGED <<kind, draft, marks, net, ctx, params, fetched>>
    /\ UNCHANGED <<wvars, cvars, trail>>

\* GetInvoicesBuilder / GetChecksBuilder / GetTransfersBuilder ::execute
ExecuteGet ==
    /\ kind \in GetApiBuilders
    /\ pc = "building"
    /\ LET r == GetValidate(draft) IN
       IF ~r.ok
           THEN Fail(r) /\ UNCHANGED <<net, params>>
       ELSE /\ params' = Some(FinalizedParams(kind, draft))
            /\ net' = Append(net, OperationOf(kind))
            /\ pc' = "await_op"
            /\ UNCHANGED result
    /\ UNCHANGED <<kind, draft, marks, ctx, fetched>>
    /\ UNCHANGED <<wvars, cvars, trail>>

\* GetInvoicesParamsBuilder / GetChecksParamsBuilder / GetTransfersParamsBuilder ::build
BuildGet ==
    /\ kind \in GetParamsBuilders
    /\ pc = "building"
    /\ LET r == GetValidate(draft) IN
       IF ~r.ok
           THEN Fail(r) /\ UNCHANGED params
       ELSE /\ params' = Some(FinalizedParams(kind, draft))
            /\ result' = Some(Ok)
            /\ pc' = "done"
    /\ UNCHANGED <<kind, draft, marks, net, ctx, fetched>>
    /\ UNCHANGED <<wvars, cvars, trail>>

\* mutant: the delete builders fetch the exchange rates first
ExecuteDeleteWithRates ==
    /\ kind \in DeleteBuilders
    /\ pc = "building"
    /\ params' = Some(FinalizedParams(kind, draft))
    /\ net' = net \o <<RatesRequest, OperationOf(kind)>>
    /\ pc' = "await_op"
    /\ UNCHANGED <<kind, draft, marks, ctx, result, fetched>>
    /\ UNCHANGED <<wvars, cvars, trail>>

\* DeleteInvoiceBuilder / DeleteCheckBuilder ::execute
ExecuteDelete ==
    /\ kind \in DeleteBuilders
    /\ pc = "building"
    /\ params' = Some(FinalizedParams(kind, draft))
    /\ net' = Append(net, OperationOf(kind))
    /\ pc' = "await_op"
    /\ UNCHANGED <<kind, draft, marks, ctx, result, fetched>>
    /\ UNCHANGED <<wvars, cvars, trail>>

\* GetStatsParamsBuilder::build when Utc::now() returns `now`: validate()?,
\* then the params
BuildStatsAt(now) ==
    /\ kind = StatsBuilder
    /\ pc = "building"
    /\ LET r == StatsValidate(draft, now) IN
       IF ~r.ok
           THEN Fail(r) /\ UNCHANGED params
       ELSE /\ params' = Some(FinalizedParams(kind, draft))
            /\ result' = Some(Ok)
            /\ pc' = "done"
    /\ UNCHANGED <<kind, draft, marks, net, ctx, fetched>>
    /\ UNCHANGED <<wvars, cvars, trail>>

\* GetStatsParamsBuilder::build at whatever instant it is called
BuildStats == \E now \in Times : BuildStatsAt(now)

\* MiscAPI::get_stats(Some(&params)) with the params build() returned
GetStats ==
    /\ kind = StatsBuilder
    /\ pc = "done"
    /\ result = Some(Ok)
    /\ net = <<>>
    /\ net' = Append(net, OperationOf(kind))
    /\ pc' = "await_op"
    /\ result' = None
    /\ UNCHANGED <<kind, draft, marks, ctx, params, fetched>>
    /\ UNCHANGED <<wvars, cvars, trail>>

\* CreateInvoiceParams::validate(&self) of the plain struct
ValidatePlain ==
    /\ kind = PlainInvoice
    /\ pc = "building"
    /\ result' = Some(PlainInvoiceValidate(draft))
    /\ pc' = "validated"
    /\ UNCHANGED <<kind, draft, marks, net, ctx, params, fetched>>
    /\ UNCHANGED <<wvars, cvars, trail>>

\* the caller starts another draft
NewBuilder ==
    /\ pc \in {"done", "validated"}
    /\ \E k \in Kinds :
         /\ kind' = k
         /\ draft' \in NewDrafts(k)
         /\ marks' = NewMarks(k)
    /\ pc' = "building"
    /\ net' = <<>>
    /\ ctx' = None
    /\ params' = None
    /\ result' = None
    /\ fetched' = None
    /\ trail' = NoTrail
    /\ UNCHANGED <<wvars, cvars>>

Next ==
    \/ \E a \in Amounts : SetAmount(a)
    \/ \E x \in Assets : SetAsset(x)
    \/ \E f \in Fiats : SetFiat(f)
    \/ \E t \in {"crypto", "fiat"} : SetCurrencyType(t)
    \/ \E n \in PayButtonNames : SetPaidBtnName(n)
    \/ \E u \in Urls : SetPaidBtnUrl(u)
    \/ \E n \in Lengths(MaxDescription) : SetDescription(n)
    \/ \E n \in Lengths(MaxHiddenMessage) : SetHiddenMessage(n)
    \/ \E n \in Lengths(MaxPayload) : SetPayload(n)
    \/ \E e \in ExpiresIns : SetExpiresIn(e)
    \/ \E u \in UserIds : SetUserId(u)
    \/ \E n \in SpendIds : SetSpendId(n)
    \/ \E n \in Lengths(MaxComment) : SetComment(n)
    \/ \E c \in Counts : SetCount(c)
    \/ Finalize
    \/ RatesResponse
    \/ OperationResponse
    \/ \E t \in Times : SetStartAt(t)
    \/ \E t \in Times : SetEndAt(t)
    \/ ExecuteGet
    \/ BuildGet
    \/ ExecuteDelete
    \/ BuildStats
    \/ GetStats
    \/ ValidatePlain
    \/ NewBuilder

Spec == Init /\ [][Next]_vars

----------------------------------------------------------------------------
(* Webhook: data *)

\* DEFAULT_WEBHOOK_EXPIRATION_TIME, in seconds
DefaultExpiration == 600

\* the window the tests configure with with_expiration_time, in seconds
CustomExpiration == 60

\* 2^16: a u64 or i64 is held as four 16-bit limbs, most significant first
Limb == 256 * 256

\* Duration::from_secs(n), for n below 2^31
from_secs(n) == <<0, 0, n \div Limb, n % Limb>>

\* u64::MAX
U64Max == <<Limb - 1, Limb - 1, Limb - 1, Limb - 1>>

\* a < b on limbs
LexLt(a, b) == \E i \in 1..4 : a[i] < b[i] /\ \A j \in 1..(i - 1) : a[j] = b[j]

\* u + 1 modulo 2^64
Increment(u) ==
    IF u = U64Max THEN <<0, 0, 0, 0>>
    ELSE LET k == CHOOSE i \in 1..4 : u[i] < Limb - 1 /\ \A j \in (i + 1)..4 : u[j] = Limb - 1
         IN  [j \in 1..4 |-> IF j < k THEN u[j] ELSE IF j = k THEN u[k] + 1 ELSE 0]

\* 2^64 - u, for u # 0
wrapping_neg(u) == Increment([j \in 1..4 |-> Limb - 1 - u[j]])

\* `as i64` of a u64: the same 64 bits read in two's complement, as a sign
\* and a magnitude
as_i64(u) ==
    IF u[1] < Limb \div 2 THEN [neg |-> FALSE, mag |-> u]
    ELSE [neg |-> TRUE, mag |-> wrapping_neg(u)]

\* the i64 of a small integer of the model
I64(n) == [neg |-> n < 0, mag |-> from_secs(IF n < 0 THEN 0 - n ELSE n)]

\* x > y on i64
I64Gt(x, y) ==
    IF x.neg # y.neg THEN y.neg
    ELSE IF x.neg THEN LexLt(x.mag, y.mag)
    ELSE LexLt(y.mag, x.mag)

\* i64::MAX / 1000 = 9223372036854775, the most seconds a chrono::Duration holds
ChronoMaxSecs == <<32, 50331, 42467, 21495>>

\* chrono::Duration::seconds(secs) panics when secs is out of bounds
DurationSecondsInBounds(secs) == ~LexLt(ChronoMaxSecs, secs.mag)

\* the windows beyond the tests: the largest chrono holds, one more, 2^63,
\* u64::MAX - 1 and u64::MAX
BigDurations ==
    {ChronoMaxSecs, Increment(ChronoMaxSecs), <<Limb \div 2, 0, 0, 0>>,
     [U64Max EXCEPT ![4] = Limb - 2], U64Max}

\* Utc::now() while a call runs, in seconds
Now == 1000

ApiToken == "test_token"

\* a token the handler does not hold
ForeignToken == "other_token"

WebhookError(k, msg) ==
    [ok |-> FALSE, err |-> "WebhookError", kind |-> k, field |-> "", message |-> msg]

\* axum's Err(StatusCode)
Status(code) ==
    [ok |-> FALSE, err |-> "StatusCode", kind |-> code, field |-> "", message |-> ""]

\* the errors a registered callback may return
HandlerErrors == {HttpError, WebhookError("InvalidPayload", "rejected by the handler")}

\* ages (now - request_date, seconds) of the updates tried: around both
\* windows, the 2 and 3 minutes of the tests, and a date in the future
Ages ==
    {0 - 1, 0, 120, 180}
        \cup ((CustomExpiration - Over)..(CustomExpiration + Over))
        \cup ((DefaultExpiration - Over)..(DefaultExpiration + Over))

\* request_date: a string that is an RFC 3339 timestamp (of that instant) or not
Rfc3339(secs) == [rfc3339 |-> TRUE, secs |-> secs]

NotADate == [rfc3339 |-> FALSE, secs |-> 0]

\* the ways a body fails to deserialize into a WebhookUpdate
Malformed == {"invalid_json", "missing_field", "unknown_update_type"}

Body(shape, date) == [shape |-> shape, request_date |-> date]

Bodies ==
    {Body("update", Rfc3339(Now - a)) : a \in Ages}
        \cup {Body("update", NotADate)}
        \cup {Body(m, NotADate) : m \in Malformed}

\* request bodies that never become a &str: the stream fails while it is
\* read, or its bytes are not UTF-8
Unreadable == {"read_error", "not_utf8"}

\* the bodies a request to the middleware may carry
RawBodies == Bodies \cup {Body(m, NotADate) : m \in Unreadable}

\* serde_json's message for each failure
Diagnostic(shape) ==
    CASE shape = "invalid_json" -> "expected value at line 1 column 1"
      [] shape = "missing_field" -> "missing field update_id"
      [] shape = "unknown_update_type" -> "unknown variant, expected invoice_paid"

\* WebhookHandler::parse_update
parse_update(body) ==
    IF body.shape = "update"
        THEN [ok |-> TRUE,
              value |-> [update_id |-> 1, update_type |-> "invoice_paid",
                         request_date |-> body.request_date]]
    ELSE [ok |-> FALSE, value |-> WebhookError("InvalidPayload", Diagnostic(body.shape))]

----------------------------------------------------------------------------
(* Webhook: signature *)

HexDigits == <<"0", "1", "2", "3", "4", "5", "6", "7", "8", "9",
               "a", "b", "c", "d", "e", "f">>

UpperDigits == <<"0", "1", "2", "3", "4", "5", "6", "7", "8", "9",
                 "A", "B", "C", "D", "E", "F">>

\* characters tried in a signature: hex digits of both cases and a non-digit
SigChars == {HexDigits[i] : i \in 1..16} \cup {UpperDigits[i] : i \in 1..16} \cup {"g"}

\* hex::encode: two lower-case digits per byte
RECURSIVE HexEncode(_)
HexEncode(bytes) ==
    IF bytes = <<>> THEN <<>>
    ELSE <<HexDigits[(Head(bytes) \div 16) + 1], HexDigits[(Head(bytes) % 16) + 1]>>
             \o HexEncode(Tail(bytes))

IsHexDigit(c) == \E i \in 1..16 : c = HexDigits[i] \/ c = UpperDigits[i]

\* val() of the hex crate: a digit of either case
HexVal(c) == (CHOOSE i \in 1..16 : c = HexDigits[i] \/ c = UpperDigits[i]) - 1

RECURSIVE DecodePairs(_)
DecodePairs(s) ==
    IF s = <<>> THEN <<>>
    ELSE <<HexVal(s[1]) * 16 + HexVal(s[2])>> \o DecodePairs(SubSeq(s, 3, Len(s)))

\* hex::decode: Err on odd length or on a character that is no hex digit
HexDecode(s) ==
    IF Len(s) % 2 # 0 \/ \E i \in 1..Len(s) : ~IsHexDigit(s[i]) THEN None
    ELSE Some(DecodePairs(s))

TokenIx(t) == IF t = ApiToken THEN 1 ELSE 2

\* a number that identifies the bytes of a body
BodyCode(body) ==
    IF body.shape = "invalid_json" THEN 1
    ELSE IF body.shape = "missing_field" THEN 2
    ELSE IF body.shape = "unknown_update_type" THEN 3
    ELSE IF body.shape = "read_error" THEN 5
    ELSE IF body.shape = "not_utf8" THEN 6
    ELSE IF ~body.request_date.rfc3339 THEN 4
    ELSE 16 + body.request_date.secs

\* HMAC-SHA256 keyed with SHA256(token) over the body, as a tag of three
\* bytes that differs for every token and body tried (no collisions)
Mac(token, body) ==
    <<160 + TokenIx(token), BodyCode(body) \div 256, BodyCode(body) % 256>>

\* mac.verify_slice: the tag has the right length and the same bytes
verify_slice(tag, bytes) == bytes = tag

\* mutant: only the bytes presented are compared (a prefix passes)
verify_signature_prefix(token, body, signature) ==
    LET hex_signature == HexDecode(signature) IN
    IF IsSome(hex_signature)
        THEN LET b == Unwrap(hex_signature) IN
             /\ Len(b) <= Len(Mac(token, body))
             /\ b = SubSeq(Mac(token, body), 1, Len(b))
    ELSE FALSE

\* WebhookHandler::verify_signature / CryptoBot::verify_webhook_signature
verify_signature(token, body, signature) ==
    LET hex_signature == HexDecode(signature) IN
    IF IsSome(hex_signature)
        THEN verify_slice(Mac(token, body), Unwrap(hex_signature))
    ELSE FALSE

----------------------------------------------------------------------------
(* Webhook: configuration and handler construction *)

\* the request builders' side of the state
bvars == <<kind, draft, marks, pc, net, ctx, params, result, fetched, trail>>

\* the callbacks a caller may register
Callbacks == {"first", "second"}

\* WebhookHandlerConfigBuilder::new / new_with_client
NewConfig(token) ==
    [api_token |-> token, expiration_time |-> Some(from_secs(DefaultExpiration))]

\* WebhookHandler::new
NewHandler(token) ==
    [api_token |-> token, webhook_expiration_time |-> Some(from_secs(DefaultExpiration)),
     update_handler |-> None]

\* WebhookHandler::with_config: the handler carries the configured window
with_config(token, config) ==
    [api_token |-> token, webhook_expiration_time |-> config.expiration_time,
     update_handler |-> None]

ConfigNew ==
    /\ wpc = "start"
    /\ cfg' = Some(NewConfig(None))
    /\ wpc' = "config"
    /\ UNCHANGED <<handler, req, update, stages, invoked, answered, outcome>>
    /\ UNCHANGED <<bvars, cvars>>

ConfigNewWithClient ==
    /\ wpc = "start"
    /\ cfg' = Some(NewConfig(Some(ApiToken)))
    /\ wpc' = "config"
    /\ UNCHANGED <<handler, req, update, stages, invoked, answered, outcome>>
    /\ UNCHANGED <<bvars, cvars>>

ConfigExpirationTime(d) ==
    /\ wpc = "config"
    /\ cfg' = Some([Unwrap(cfg) EXCEPT !.expiration_time = Some(d)])
    /\ UNCHANGED <<handler, wpc, req, update, stages, invoked, answered, outcome>>
    /\ UNCHANGED <<bvars, cvars>>

ConfigDisableExpiration ==
    /\ wpc = "config"
    /\ cfg' = Some([Unwrap(cfg) EXCEPT !.expiration_time = None])
    /\ UNCHANGED <<handler, wpc, req, update, stages, invoked, answered, outcome>>
    /\ UNCHANGED <<bvars, cvars>>

\* WebhookHandlerConfigBuilder::build: api_token.expect(..) panics without a
\* client, otherwise the handler is made from the config
ConfigBuild ==
    /\ wpc = "config"
    /\ IF IsNone(Unwrap(cfg).api_token)
           THEN wpc' = "panicked" /\ UNCHANGED <<cfg, handler>>
       ELSE /\ handler' = Some(with_config(Unwrap(Unwrap(cfg).api_token),
                                           [expiration_time |-> Unwrap(cfg).expiration_time]))
            /\ cfg' = None
            /\ wpc' = "idle"
    /\ UNCHANGED <<req, update, stages, invoked, answered, outcome>>
    /\ UNCHANGED <<bvars, cvars>>

HandlerNew ==
    /\ wpc = "start"
    /\ handler' = Some(NewHandler(ApiToken))
    /\ wpc' = "idle"
    /\ UNCHANGED <<cfg, req, update, stages, invoked, answered, outcome>>
    /\ UNCHANGED <<bvars, cvars>>

\* WebhookHandler::with_expiration_time(self, duration)
WithExpirationTime(d) ==
    /\ wpc = "idle"
    /\ handler' = Some([Unwrap(handler) EXCEPT !.webhook_expiration_time = Some(d)])
    /\ UNCHANGED <<cfg, wpc, req, update, stages, invoked, answered, outcome>>
    /\ UNCHANGED <<bvars, cvars>>

\* WebhookHandler::on_update(&mut self, handler)
OnUpdate(cb) ==
    /\ wpc = "idle"
    /\ handler' = Some([Unwrap(handler) EXCEPT !.update_handler = Some(cb)])
    /\ UNCHANGED <<cfg, wpc, req, update, stages, invoked, answered, outcome>>
    /\ UNCHANGED <<bvars, cvars>>

----------------------------------------------------------------------------
(* Webhook: calls *)

Call(entry, header, body) == [entry |-> entry, header |-> header, body |-> body]

\* a bool returned by verify_signature
Verdict(b) == [ok |-> b, err |-> "", kind |-> "bool", field |-> "", message |-> ""]

\* the signatures tried against a body: the valid one, each of its
\* characters replaced by every character tried, shorter and longer ones, the
\* empty one, and the valid signatures of another token and of other bodies
Signatures(body) ==
    LET v == HexEncode(Mac(ApiToken, body)) IN
    {v} \cup {[v EXCEPT ![i] = c] : i \in 1..Len(v), c \in SigChars}
        \cup {SubSeq(v, 1, n) : n \in 0..(Len(v) - 1)}
        \cup {v \o <<"0">>, v \o <<"0", "0">>}
        \cup {HexEncode(Mac(ForeignToken, body))}
        \cup {HexEncode(Mac(ApiToken, b)) : b \in Bodies}

\* a header byte outside visible ASCII: HeaderValue::to_str fails on it
Opaque == "opaque"

\* HeaderValue::to_str(..).ok()
to_str(h) == IF \E i \in 1..Len(h) : h[i] = Opaque THEN None ELSE Some(h)

\* crypto-pay-api-signature headers tried by the middleware: absent, valid,
\* valid in upper case, one digit changed, not hex, signed with another token,
\* and the valid one with a byte that is no text
Headers(body) ==
    LET v == HexEncode(Mac(ApiToken, body)) IN
    {None, Some(v), Some([v EXCEPT ![1] = "A"]), Some([v EXCEPT ![2] = "0"]),
     Some([v EXCEPT ![1] = "g"]), Some(HexEncode(Mac(ForeignToken, body))),
     Some([v EXCEPT ![1] = Opaque])}

\* a caller calls verify_signature(body, signature)
VerifySignature(body, signature) ==
    /\ wpc = "idle"
    /\ req' = Some(Call("verify_signature", Some(signature), body))
    /\ outcome' = Some(Verdict(verify_signature(Unwrap(handler).api_token, body, signature)))
    /\ wpc' = "done"
    /\ UNCHANGED <<cfg, handler, update, stages, invoked, answered>>
    /\ UNCHANGED <<bvars, cvars>>

\* a caller calls handle_update(body)
HandleUpdate(body) ==
    /\ wpc = "idle"
    /\ req' = Some(Call("handle_update", None, body))
    /\ wpc' = "parse"
    /\ UNCHANGED <<cfg, handler, update, stages, invoked, answered, outcome>>
    /\ UNCHANGED <<bvars, cvars>>

\* a request reaches webhook_middleware
MiddlewareRequest(header, body) ==
    /\ wpc = "idle"
    /\ req' = Some(Call("middleware", header, body))
    /\ wpc' = "header"
    /\ UNCHANGED <<cfg, handler, update, stages, invoked, answered, outcome>>
    /\ UNCHANGED <<bvars, cvars>>

\* handle_update returns r (Err through `?` or return, or Ok at its end)
Returns(r) ==
    /\ outcome' = Some(r)
    /\ wpc' = "returned"

\* webhook_middleware returns r
Responds(r) ==
    /\ outcome' = Some(r)
    /\ wpc' = "done"

Passed(stage) == stages' = Append(stages, stage)

\* headers.get("crypto-pay-api-signature").and_then(to_str).ok_or(UNAUTHORIZED)?
MiddlewareHeader ==
    /\ wpc = "header"
    /\ IF IsNone(Unwrap(req).header) \/ IsNone(to_str(Unwrap(Unwrap(req).header)))
           THEN Responds(Status("401"))
       ELSE wpc' = "body" /\ UNCHANGED outcome
    /\ UNCHANGED <<cfg, handler, req, update, stages, invoked, answered>>
    /\ UNCHANGED <<bvars, cvars>>

\* to_bytes(body, usize::MAX).await.map_err(|_| BAD_REQUEST)?;
\* String::from_utf8(..).map_err(|_| BAD_REQUEST)?
MiddlewareBody ==
    /\ wpc = "body"
    /\ IF Unwrap(req).body.shape \in Unreadable
           THEN Responds(Status("400"))
       ELSE wpc' = "signature" /\ UNCHANGED outcome
    /\ UNCHANGED <<cfg, handler, req, update, stages, invoked, answered>>
    /\ UNCHANGED <<bvars, cvars>>

\* mutant: the middleware goes on whatever the signature check says
MiddlewareVerifyIgnored ==
    /\ wpc = "signature"
    /\ Passed("signature")
    /\ wpc' = "parse"
    /\ UNCHANGED <<cfg, handler, req, update, invoked, answered, outcome>>
    /\ UNCHANGED <<bvars, cvars>>

\* if !verify_webhook_signature(&body_str, signature) { return Err(UNAUTHORIZED) }
MiddlewareVerify ==
    /\ wpc = "signature"
    /\ IF ~verify_signature(Unwrap(handler).api_token, Unwrap(req).body,
                            Unwrap(Unwrap(req).header))
           THEN Responds(Status("401")) /\ UNCHANGED stages
       ELSE /\ Passed("signature")
            /\ wpc' = "parse"
            /\ UNCHANGED outcome
    /\ UNCHANGED <<cfg, handler, req, update, invoked, answered>>
    /\ UNCHANGED <<bvars, cvars>>

\* let update: WebhookUpdate = Self::parse_update(body)?;
Parse ==
    /\ wpc = "parse"
    /\ LET r == parse_update(Unwrap(req).body) IN
       IF ~r.ok
           THEN Returns(r.value) /\ UNCHANGED <<update, stages>>
       ELSE /\ update' = Some(r.value)
            /\ Passed("parse")
            /\ wpc' = "date"
            /\ UNCHANGED outcome
    /\ UNCHANGED <<cfg, handler, req, invoked, answered>>
    /\ UNCHANGED <<bvars, cvars>>

\* mutant: a request_date that does not parse is taken as the current time
ParseDateLenient ==
    /\ wpc = "date"
    /\ Passed("date")
    /\ update' = IF Unwrap(update).request_date.rfc3339 THEN update
                 ELSE Some([Unwrap(update) EXCEPT !.request_date = Rfc3339(Now)])
    /\ wpc' = "fresh"
    /\ UNCHANGED <<cfg, handler, req, invoked, answered, outcome>>
    /\ UNCHANGED <<bvars, cvars>>

\* DateTime::parse_from_rfc3339(&update.request_date).map_err(..)?
ParseDate ==
    /\ wpc = "date"
    /\ IF ~Unwrap(update).request_date.rfc3339
           THEN Returns(WebhookError("InvalidPayload", "Invalid request date"))
                    /\ UNCHANGED stages
       ELSE /\ Passed("date")
            /\ wpc' = "fresh"
            /\ UNCHANGED outcome
    /\ UNCHANGED <<cfg, handler, req, update, invoked, answered>>
    /\ UNCHANGED <<bvars, cvars>>

\* Utc::now().signed_duration_since(request_date), in seconds
Age(u) == Now - u.request_date.secs

\* self.webhook_expiration_time.unwrap_or(DEFAULT).as_secs()
ExpirationWindow(h) ==
    IF IsSome(h.webhook_expiration_time) THEN Unwrap(h.webhook_expiration_time)
    ELSE from_secs(DefaultExpiration)

\* mutant: an update exactly as old as the window is rejected
TooOldInclusive(age, window) == I64Gt(age, window) \/ age = window

\* age > webhook_expiration
TooOld(age, window) == I64Gt(age, window)

Freshness ==
    /\ wpc = "fresh"
    /\ LET webhook_expiration == as_i64(ExpirationWindow(Unwrap(handler))) IN
       IF ~DurationSecondsInBounds(webhook_expiration)
           THEN wpc' = "panicked" /\ UNCHANGED <<stages, outcome>>
       ELSE IF TooOld(I64(Age(Unwrap(update))), webhook_expiration)
           THEN Returns(WebhookError("Expired", "Webhook request too old"))
                    /\ UNCHANGED stages
       ELSE /\ Passed("fresh")
            /\ wpc' = "dispatch"
            /\ UNCHANGED outcome
    /\ UNCHANGED <<cfg, handler, req, update, invoked, answered>>
    /\ UNCHANGED <<bvars, cvars>>

\* if let Some(handler) = &self.update_handler { handler(update) .. }
Dispatch ==
    /\ wpc = "dispatch"
    /\ IF IsSome(Unwrap(handler).update_handler)
           THEN /\ invoked' = Append(invoked, Unwrap(Unwrap(handler).update_handler))
                /\ Passed("dispatch")
                /\ wpc' = "awaiting"
       ELSE /\ wpc' = "ack"
            /\ UNCHANGED <<invoked, stages>>
    /\ UNCHANGED <<cfg, handler, req, update, answered, outcome>>
    /\ UNCHANGED <<bvars, cvars>>

\* mutant: a callback that failed is invoked once more
HandlerReturnRetry ==
    /\ wpc = "awaiting"
    /\ \/ wpc' = "ack" /\ UNCHANGED invoked
       \/ wpc' = "awaiting" /\ invoked' = Append(invoked, invoked[1]) /\ Len(invoked) < 2
    /\ UNCHANGED <<cfg, handler, req, update, stages, answered, outcome>>
    /\ UNCHANGED <<bvars, cvars>>

\* mutant: a callback error is logged and the update acknowledged all the same
HandlerReturnSwallowed ==
    /\ wpc = "awaiting"
    /\ \E r \in {Ok} \cup HandlerErrors : answered' = Some(r)
    /\ wpc' = "ack"
    /\ UNCHANGED <<cfg, handler, req, update, stages, invoked, outcome>>
    /\ UNCHANGED <<bvars, cvars>>

\* .. .await?; the callback returns Ok(()) or an error
HandlerReturn ==
    /\ wpc = "awaiting"
    /\ \E r \in {Ok} \cup HandlerErrors :
           /\ answered' = Some(r)
           /\ IF r.ok THEN wpc' = "ack" /\ UNCHANGED outcome
              ELSE Returns(r)
    /\ UNCHANGED <<cfg, handler, req, update, stages, invoked>>
    /\ UNCHANGED <<bvars, cvars>>

\* Ok(WebhookResponse::ok())
Acknowledge ==
    /\ wpc = "ack"
    /\ Passed("ack")
    /\ Returns(Ok)
    /\ UNCHANGED <<cfg, handler, req, update, invoked, answered>>
    /\ UNCHANGED <<bvars, cvars>>

\* handle_update has returned to its caller
DirectReturn ==
    /\ wpc = "returned"
    /\ Unwrap(req).entry = "handle_update"
    /\ wpc' = "done"
    /\ UNCHANGED <<cfg, handler, req, update, stages, invoked, answered, outcome>>
    /\ UNCHANGED <<bvars, cvars>>

\* mutant: the downstream route runs whatever handle_update returned
MiddlewareNextRegardless ==
    /\ wpc = "returned"
    /\ Unwrap(req).entry = "middleware"
    /\ Passed("next")
    /\ Responds(Ok)
    /\ UNCHANGED <<cfg, handler, req, update, invoked, answered>>
    /\ UNCHANGED <<bvars, cvars>>

\* handle_update(..).await.map_err(|_| BAD_REQUEST)?; Ok(next.run(req).await)
MiddlewareNext ==
    /\ wpc = "returned"
    /\ Unwrap(req).entry = "middleware"
    /\ IF Unwrap(outcome).ok
           THEN Passed("next") /\ Responds(Ok)
       ELSE Responds(Status("400")) /\ UNCHANGED stages
    /\ UNCHANGED <<cfg, handler, req, update, invoked, answered>>
    /\ UNCHANGED <<bvars, cvars>>

\* the call is over; the handler waits for the next one
NextCall ==
    /\ wpc = "done"
    /\ wpc' = "idle"
    /\ req' = None
    /\ update' = None
    /\ stages' = <<>>
    /\ invoked' = <<>>
    /\ answered' = None
    /\ outcome' = None
    /\ UNCHANGED <<cfg, handler>>
    /\ UNCHANGED <<bvars, cvars>>

WebhookInit ==
    /\ kind = "CreateInvoiceBuilder"
    /\ Init

WebhookNext ==
    \/ ConfigNew
    \/ ConfigNewWithClient
    \/ ConfigExpirationTime(from_secs(CustomExpiration))
    \/ ConfigDisableExpiration
    \/ ConfigBuild
    \/ HandlerNew
    \/ WithExpirationTime(from_secs(CustomExpiration))
    \/ \E cb \in Callbacks : OnUpdate(cb)
    \/ \E body \in Bodies : \E signature \in Signatures(body) : VerifySignature(body, signature)
    \/ \E body \in Bodies : HandleUpdate(body)
    \/ \E body \in RawBodies : \E header \in Headers(body) : MiddlewareRequest(header, body)
    \/ MiddlewareHeader
    \/ MiddlewareBody
    \/ MiddlewareVerify
    \/ Parse
    \/ ParseDate
    \/ Freshness
    \/ Dispatch
    \/ HandlerReturn
    \/ Acknowledge
    \/ DirectReturn
    \/ MiddlewareNext
    \/ NextCall

WebhookSpec == WebhookInit /\ [][WebhookNext]_vars

\* the same calls on handlers whose window is any Duration
WindowNext ==
    \/ WebhookNext
    \/ \E d \in BigDurations : ConfigExpirationTime(d)
    \/ \E d \in BigDurations : WithExpirationTime(d)

WindowSpec == WebhookInit /\ [][WindowNext]_vars

----------------------------------------------------------------------------
(* Client: make_request *)

TokenHeader == "crypto-pay-api-token"

\* HeaderName::from_str: header names are kept in lower case
HeaderNameFromStr(s) ==
    IF s = "Crypto-Pay-Api-Token" THEN TokenHeader
    ELSE IF s = "X-Custom-Header" THEN "x-custom-header"
    ELSE s

\* a token that HeaderValue::from_str refuses (it holds a line break)
BrokenToken == "broken\ntoken"

\* HeaderValue::from_str
IsHeaderValue(s) == s # BrokenToken

\* HeaderMap::insert: the value of a name already present is replaced
HeaderMapInsert(map, name, value) ==
    [n \in (DOMAIN map) \cup {name} |-> IF n = name THEN value ELSE map[n]]

\* for (name, value) in custom_headers.iter() { request_headers.insert(..) }
RECURSIVE InsertAll(_, _)
InsertAll(map, headers) ==
    IF headers = <<>> THEN map
    ELSE InsertAll(HeaderMapInsert(map, Head(headers)[1], Head(headers)[2]), Tail(headers))

\* the custom header lists a ClientBuilder is given
CustomHeaders ==
    {None,
     Some(<<>>),
     Some(<< <<HeaderNameFromStr("X-Custom-Header"), "test">> >>),
     Some(<< <<HeaderNameFromStr("Crypto-Pay-Api-Token"), ForeignToken>> >>),
     Some(<< <<HeaderNameFromStr("X-Custom-Header"), "test">>,
             <<HeaderNameFromStr("Crypto-Pay-Api-Token"), ForeignToken>> >>)}

\* ClientBuilder::build
NewClient(token, headers) ==
    [api_token |-> token, base_url |-> "https://pay.crypt.bot/api", headers |-> headers]

\* CryptoBot::test_client
TestClient == NewClient(ApiToken, None)

Clients ==
    {NewClient(ApiToken, h) : h \in CustomHeaders} \cup {NewClient(BrokenToken, None)}

\* the API methods called: one without and one with parameters
Methods ==
    {[endpoint |-> "getMe", method |-> "GET", params |-> None],
     [endpoint |-> "createInvoice", method |-> "POST", params |-> Some("params")]}

\* the request make_request hands to reqwest
OutboundRequest(c, m) ==
    [url |-> <<c.base_url, m.endpoint>>,
     method |-> m.method,
     headers |-> LET token_headers ==
                         HeaderMapInsert(<<>>, HeaderNameFromStr("Crypto-Pay-Api-Token"),
                                         c.api_token)
                 IN IF IsSome(c.headers) THEN InsertAll(token_headers, Unwrap(c.headers))
                    ELSE token_headers,
     json |-> m.params]

\* a CryptoBotError variant without fields of its own
Failure(e) ==
    [ok |-> FALSE, err |-> e, code |-> 0, message |-> "", details |-> None, value |-> None]

\* CryptoBotError::ApiError { code, message, details }
ApiErrorOf(c, msg, d) ==
    [ok |-> FALSE, err |-> "ApiError", code |-> c, message |-> msg, details |-> d,
     value |-> None]

\* Ok(result)
OkOf(v) ==
    [ok |-> TRUE, err |-> "", code |-> 0, message |-> "", details |-> None,
     value |-> Some(v)]

\* a JSON object with the envelope's keys, each present or not
Envelope(o, r, e, c) ==
    [json |-> "object", ok |-> o, result |-> r, error |-> e, error_code |-> c]

NotJson(what) == [json |-> what, ok |-> None, result |-> None, error |-> None,
                  error_code |-> None]

\* response bodies: empty, malformed, and objects with ok absent, true or
\* false, result absent, null, of the expected or of another shape, and the
\* error fields present or not
ResponseBodies ==
    {NotJson("empty"), NotJson("malformed")}
        \cup {Envelope(o, r, e[1], e[2]) :
                  o \in {None, Some(TRUE), Some(FALSE)},
                  r \in {None, Some("null"), Some("value"), Some("wrong_shape")},
                  e \in {<<None, None>>, <<Some("INVALID_TOKEN"), Some(401)>>,
                         <<Some("INVALID_TOKEN"), None>>, <<None, Some(401)>>}}

\* what comes back from request.send(): no response at all, or a status and
\* a body that can or cannot be read to its end
Responses ==
    {[sent |-> FALSE, status |-> 0, readable |-> FALSE, body |-> NotJson("empty")]}
        \cup {[sent |-> TRUE, status |-> s, readable |-> TRUE, body |-> b] :
                  s \in {200, 500}, b \in ResponseBodies}
        \cup {[sent |-> TRUE, status |-> 200, readable |-> FALSE, body |-> NotJson("empty")]}

\* StatusCode::is_success
IsSuccess(status) == status >= 200 /\ status < 300

\* the text of serde_json's error
DecodeError(b) ==
    IF b.json = "empty" THEN "EOF while parsing a value"
    ELSE IF b.json = "malformed" THEN "expected value"
    ELSE IF IsNone(b.ok) THEN "missing field ok"
    ELSE "invalid type: string, expected a map"

\* serde_json::from_str::<ApiResponse<R>>: ok is required, result is an
\* Option<R> (null and absent give None), error and error_code are Options
Decode(b) ==
    IF b.json # "object" \/ IsNone(b.ok) \/ b.result = Some("wrong_shape")
        THEN [ok |-> FALSE, value |-> DecodeError(b)]
    ELSE [ok |-> TRUE,
          value |-> [ok |-> Unwrap(b.ok),
                     result |-> IF b.result = Some("value") THEN b.result ELSE None,
                     error |-> b.error,
                     error_code |-> b.error_code]]

\* mutant: the envelope is decoded before the status is looked at
DecideEnvelopeFirst(r) ==
    IF ~r.sent THEN Failure("HttpError")
    ELSE IF r.readable /\ Decode(r.body).ok /\ ~Decode(r.body).value.ok
        THEN LET a == Decode(r.body).value IN
             ApiErrorOf(IF IsSome(a.error_code) THEN Unwrap(a.error_code) ELSE 0,
                        IF IsSome(a.error) THEN Unwrap(a.error) ELSE "", None)
    ELSE IF ~IsSuccess(r.status) \/ ~r.readable THEN Failure("HttpError")
    ELSE IF ~Decode(r.body).ok
        THEN ApiErrorOf(0 - 1, "Failed to parse API response", Some(Decode(r.body).value))
    ELSE IF IsNone(Decode(r.body).value.result) THEN Failure("NoResult")
    ELSE OkOf(Unwrap(Decode(r.body).value.result))

\* mutant: a body that does not decode counts as an envelope without result
DecideLenientDecode(r) ==
    IF ~r.sent \/ ~IsSuccess(r.status) \/ ~r.readable THEN Failure("HttpError")
    ELSE IF ~Decode(r.body).ok THEN Failure("NoResult")
    ELSE LET a == Decode(r.body).value IN
         IF ~a.ok
             THEN ApiErrorOf(IF IsSome(a.error_code) THEN Unwrap(a.error_code) ELSE 0,
                             IF IsSome(a.error) THEN Unwrap(a.error) ELSE "", None)
         ELSE IF IsNone(a.result) THEN Failure("NoResult")
         ELSE OkOf(Unwrap(a.result))

\* mutant: without both error fields the error is the unknown one, code -1
DecideErrorNeedsFields(r) ==
    IF ~r.sent \/ ~IsSuccess(r.status) \/ ~r.readable THEN Failure("HttpError")
    ELSE IF ~Decode(r.body).ok
        THEN ApiErrorOf(0 - 1, "Failed to parse API response", Some(Decode(r.body).value))
    ELSE LET a == Decode(r.body).value IN
         IF ~a.ok
             THEN IF IsSome(a.error_code) /\ IsSome(a.error)
                      THEN ApiErrorOf(Unwrap(a.error_code), Unwrap(a.error), None)
                  ELSE ApiErrorOf(0 - 1, "Unknown error", None)
         ELSE IF IsNone(a.result) THEN Failure("NoResult")
         ELSE OkOf(Unwrap(a.result))

\* mutant: an envelope without result gives a null value
DecideDefaultResult(r) ==
    IF ~r.sent \/ ~IsSuccess(r.status) \/ ~r.readable THEN Failure("HttpError")
    ELSE IF ~Decode(r.body).ok
        THEN ApiErrorOf(0 - 1, "Failed to parse API response", Some(Decode(r.body).value))
    ELSE LET a == Decode(r.body).value IN
         IF ~a.ok
             THEN ApiErrorOf(IF IsSome(a.error_code) THEN Unwrap(a.error_code) ELSE 0,
                             IF IsSome(a.error) THEN Unwrap(a.error) ELSE "", None)
         ELSE IF IsNone(a.result) THEN OkOf("null")
         ELSE OkOf(Unwrap(a.result))

\* make_request from request.send().await? to its end
Decide(r) ==
    IF ~r.sent THEN Failure("HttpError")
    ELSE IF ~IsSuccess(r.status) THEN Failure("HttpError")
    ELSE IF ~r.readable THEN Failure("HttpError")
    ELSE IF ~Decode(r.body).ok
        THEN ApiErrorOf(0 - 1, "Failed to parse API response", Some(Decode(r.body).value))
    ELSE LET a == Decode(r.body).value IN
         IF ~a.ok
             THEN ApiErrorOf(IF IsSome(a.error_code) THEN Unwrap(a.error_code) ELSE 0,
                             IF IsSome(a.error) THEN Unwrap(a.error) ELSE "", None)
         ELSE IF IsNone(a.result) THEN Failure("NoResult")
         ELSE OkOf(Unwrap(a.result))

----------------------------------------------------------------------------
(* Concurrent calls on one shared client and one shared handler *)

CallIds == {1, 2}

IdleCall ==
    [op |-> "none", pc |-> "idle", arg |-> None, sent |-> None, answer |-> None,
     result |-> None]

\* the handlers shared between calls: without and with a callback
SharedHandlers ==
    {NewHandler(ApiToken), [NewHandler(ApiToken) EXCEPT !.update_handler = Some("first")]}

\* the bodies handled concurrently: fresh, too old, bad date, not an update
SharedBodies ==
    {Body("update", Rfc3339(Now)), Body("update", Rfc3339(Now - DefaultExpiration - 1)),
     Body("update", NotADate), Body("invalid_json", NotADate)}

\* handle_update up to its only await: the error it returns before the
\* dispatch, or None when the update reaches the dispatch
BeforeDispatch(h, body) ==
    LET p == parse_update(body) IN
    IF ~p.ok THEN Some(p.value)
    ELSE IF ~p.value.request_date.rfc3339
        THEN Some(WebhookError("InvalidPayload", "Invalid request date"))
    ELSE IF TooOld(I64(Age(p.value)), as_i64(ExpirationWindow(h)))
        THEN Some(WebhookError("Expired", "Webhook request too old"))
    ELSE None

\* mutant: the header map is kept in the client and reused by the next call
SendRequestKeepingHeaders(i, m) ==
    /\ calls[i].pc = "idle"
    /\ IsHeaderValue(Unwrap(client).api_token)
    /\ calls' = [calls EXCEPT ![i] =
                     [op |-> "make_request", pc |-> "awaiting", arg |-> Some(m),
                      sent |-> Some(OutboundRequest(Unwrap(client), m)), answer |-> None,
                      result |-> None]]
    /\ client' = Some([Unwrap(client) EXCEPT
                        !.headers = Some(<< <<TokenHeader, Unwrap(client).api_token>> >>)])
    /\ UNCHANGED <<wire, clock, runs, decoded, bvars, wvars>>

\* make_request up to request.send(): the headers are built, the request is
\* issued; a token that is no header value fails before anything is sent
SendRequest(i, m) ==
    /\ calls[i].pc = "idle"
    /\ calls' = [calls EXCEPT ![i] =
                     IF ~IsHeaderValue(Unwrap(client).api_token)
                         THEN [op |-> "make_request", pc |-> "done", arg |-> Some(m),
                               sent |-> None, answer |-> None,
                               result |-> Some(Failure("InvalidHeaderValue"))]
                     ELSE [op |-> "make_request", pc |-> "awaiting", arg |-> Some(m),
                           sent |-> Some(OutboundRequest(Unwrap(client), m)), answer |-> None,
                           result |-> None]]
    /\ UNCHANGED <<client, wire, clock, runs, decoded, bvars, wvars>>

\* request.send().await comes back (the request was moved into send()); the
\* rest of make_request runs
ReceiveResponse(i, r) ==
    /\ calls[i].op = "make_request"
    /\ calls[i].pc = "awaiting"
    /\ calls' = [calls EXCEPT ![i] =
                     [@ EXCEPT !.pc = "done", !.arg = None, !.sent = None,
                               !.answer = Some(r), !.result = Some(Decide(r))]]
    /\ UNCHANGED <<client, wire, clock, runs, decoded, bvars, wvars>>

\* handle_update(body) on the shared handler, up to the callback's await
BeginUpdate(i, body) ==
    /\ calls[i].pc = "idle"
    /\ LET h == Unwrap(handler)
           early == BeforeDispatch(h, body)
       IN calls' = [calls EXCEPT ![i] =
                        IF IsSome(early)
                            THEN [op |-> "handle_update", pc |-> "done", arg |-> Some(body),
                                  sent |-> None, answer |-> None, result |-> early]
                        ELSE IF IsSome(h.update_handler)
                            THEN [op |-> "handle_update", pc |-> "awaiting",
                                  arg |-> Some(body), sent |-> h.update_handler,
                                  answer |-> None, result |-> None]
                        ELSE [op |-> "handle_update", pc |-> "done", arg |-> Some(body),
                              sent |-> None, answer |-> None, result |-> Some(Ok)]]
    /\ UNCHANGED <<client, wire, clock, runs, decoded, bvars, wvars>>

\* the callback's future completes; handle_update returns
CallbackReturns(i, r) ==
    /\ calls[i].op = "handle_update"
    /\ calls[i].pc = "awaiting"
    /\ calls' = [calls EXCEPT ![i] =
                     [@ EXCEPT !.pc = "done", !.answer = Some(r),
                               !.result = IF r.ok THEN Some(Ok) ELSE Some(r)]]
    /\ UNCHANGED <<client, wire, clock, runs, decoded, bvars, wvars>>

\* the caller takes the result; the task may start another call
EndCall(i) ==
    /\ calls[i].pc = "done"
    /\ calls' = [calls EXCEPT ![i] = IdleCall]
    /\ UNCHANGED <<client, wire, clock, runs, decoded, bvars, wvars>>

ConcurrentInit ==
    /\ kind = "CreateInvoiceBuilder"
    /\ draft \in NewDrafts(kind)
    /\ marks = NewMarks(kind)
    /\ pc = "building"
    /\ net = <<>>
    /\ ctx = None
    /\ params = None
    /\ result = None
    /\ fetched = None
    /\ cfg = None
    /\ wpc = "shared"
    /\ req = None
    /\ update = None
    /\ stages = <<>>
    /\ invoked = <<>>
    /\ answered = None
    /\ outcome = None
    /\ wire = None
    /\ clock = Some(1)
    /\ runs = <<>>
    /\ decoded = None
    /\ trail = NoTrail
    /\ \/ client \in {Some(c) : c \in Clients} /\ handler = Some(NewHandler(ApiToken))
       \/ client = Some(TestClient) /\ handler \in {Some(h) : h \in SharedHandlers}
    /\ calls = [i \in CallIds |-> IdleCall]

ConcurrentNext ==
    \E i \in CallIds :
        \/ \E m \in Methods : SendRequest(i, m)
        \/ \E r \in Responses : ReceiveResponse(i, r)
        \/ \E body \in SharedBodies : BeginUpdate(i, body)
        \/ \E r \in {Ok} \cup HandlerErrors : CallbackReturns(i, r)
        \/ EndCall(i)

ConcurrentSpec == ConcurrentInit /\ [][ConcurrentNext]_vars

----------------------------------------------------------------------------
(* Serialization of finalized requests *)

\* the builders whose params hold a list
ListKinds == GetApiBuilders \cup {"CreateInvoiceBuilder"}

\* the id lists handed to invoice_ids / check_ids / transfer_ids
IdLists == {<<>>, <<0>>, <<123>>, <<1, 2>>, <<2, 1>>, <<10, 5, 7>>}

\* the lists handed to accept_asset
AssetLists == {<<>>, <<"TON">>, <<"TON", "BTC">>}

\* the JSON key of the id list of each request
IdsKey(k) ==
    CASE k = "GetInvoicesBuilder" -> "invoice_ids"
      [] k = "GetChecksBuilder" -> "check_ids"
      [] k = "GetTransfersBuilder" -> "transfer_ids"

\* GetInvoicesParams / GetChecksParams / GetTransfersParams ::default(), and
\* a CreateInvoiceBuilder whose amount and asset are set
ListDraft(k) ==
    IF k \in GetApiBuilders THEN [asset |-> None, ids |-> None, count |-> None]
    ELSE [currency_type |-> Some("crypto"), asset |-> Some("TON"), fiat |-> None,
          accept_asset |-> None, amount |-> DecOne, description |-> None,
          hidden_message |-> None, paid_btn_name |-> None, paid_btn_url |-> None,
          payload |-> None, expires_in |-> None]

DecDigits == <<"0", "1", "2", "3", "4", "5", "6", "7", "8", "9">>

\* u64::to_string
RECURSIVE to_string(_)
to_string(n) ==
    IF n < 10 THEN <<DecDigits[n + 1]>>
    ELSE to_string(n \div 10) \o <<DecDigits[(n % 10) + 1]>>

\* [String]::join(sep)
RECURSIVE Join(_, _)
Join(strs, sep) ==
    IF strs = <<>> THEN <<>>
    ELSE IF Len(strs) = 1 THEN strs[1]
    ELSE strs[1] \o sep \o Join(Tail(strs), sep)

JsonString(chars) == [t |-> "string", v |-> chars]

JsonArray(items) == [t |-> "array", v |-> items]

\* a number, bool or enum name, written as it is
JsonScalar(x) == [t |-> "scalar", v |-> x]

\* mutant: the ids are joined by a comma and a space
serialize_comma_space_separated_list(ids) ==
    IF IsSome(ids)
        THEN JsonString(Join([i \in 1..Len(Unwrap(ids)) |-> to_string(Unwrap(ids)[i])],
                             <<",", " ">>))
    ELSE [t |-> "unreachable", v |-> <<>>]

\* serialize_comma_separated_list
serialize_comma_separated_list(ids) ==
    IF IsSome(ids)
        THEN JsonString(Join([i \in 1..Len(Unwrap(ids)) |-> to_string(Unwrap(ids)[i])],
                             <<",">>))
    ELSE [t |-> "unreachable", v |-> <<>>]

\* should_skip_invoice_ids / should_skip_check_ids / should_skip_transfer_ids:
\* !matches!(ids, Some(ids) if !ids.is_empty())
should_skip_ids(ids) == ~(IsSome(ids) /\ Unwrap(ids) # <<>>)

\* the optional fields of CreateInvoiceParams, each skipped by Option::is_none
InvoiceOptionals ==
    {"currency_type", "asset", "fiat", "accept_asset", "description", "hidden_message",
     "paid_btn_name", "paid_btn_url", "payload", "expires_in"}

\* serde's Serialize of the params struct: the keys written and their values
to_json(k, p) ==
    IF k \in GetApiBuilders
        THEN LET keys == {f \in {"asset", "count"} : IsSome(p[f])}
                             \cup (IF should_skip_ids(p.ids) THEN {} ELSE {IdsKey(k)})
             IN [key \in keys |->
                     IF key = IdsKey(k) THEN serialize_comma_separated_list(p.ids)
                     ELSE JsonScalar(Unwrap(p[key]))]
    ELSE LET keys == {"amount"} \cup {f \in InvoiceOptionals : IsSome(p[f])}
         IN [key \in keys |->
                 IF key = "amount" THEN JsonString(p.amount)
                 ELSE IF key = "accept_asset" THEN JsonArray(Unwrap(p.accept_asset))
                 ELSE JsonScalar(Unwrap(p[key]))]

\* GetInvoicesBuilder::invoice_ids / GetChecksBuilder::check_ids /
\* GetTransfersBuilder::transfer_ids
SetIds(ids) ==
    /\ kind \in GetApiBuilders
    /\ pc = "building"
    /\ draft' = [draft EXCEPT !.ids = Some(ids)]
    /\ Logs("ids", ids)
    /\ UNCHANGED <<kind, marks, pc, net, ctx, params, result, fetched>>
    /\ UNCHANGED <<wvars, cvars>>

\* Option<u16> count and Option<CryptoCurrencyCode> asset of the Get params
SetFilter(x, c) ==
    /\ kind \in GetApiBuilders
    /\ pc = "building"
    /\ draft' = [draft EXCEPT !.asset = x, !.count = c]
    /\ draft' # draft
    /\ trail' = [trail EXCEPT !["asset"] = x, !["count"] = c]
    /\ UNCHANGED <<kind, marks, pc, net, ctx, params, result, fetched>>
    /\ UNCHANGED <<wvars, cvars>>

\* CreateInvoiceBuilder::accept_asset
SetAcceptAsset(assets) ==
    /\ kind = "CreateInvoiceBuilder"
    /\ pc = "building"
    /\ draft' = [draft EXCEPT !.accept_asset = Some(assets)]
    /\ Logs("accept_asset", assets)
    /\ UNCHANGED <<kind, marks, pc, net, ctx, params, result, fetched>>
    /\ UNCHANGED <<wvars, cvars>>

\* execute(): the validated params are handed to make_request, whose
\* request.json(params) writes the body
SerializeParams ==
    /\ kind \in ListKinds
    /\ pc = "building"
    /\ (IF kind \in GetApiBuilders THEN GetValidate(draft) ELSE ApiInvoiceValidate(draft)).ok
    /\ params' = Some(draft)
    /\ wire' = Some(to_json(kind, draft))
    /\ net' = Append(net, OperationOf(kind))
    /\ pc' = "await_op"
    /\ UNCHANGED <<kind, draft, marks, ctx, result, fetched>>
    /\ UNCHANGED <<wvars, client, calls, clock, runs, decoded, trail>>

SerializeInit ==
    /\ kind \in ListKinds
    /\ draft = ListDraft(kind)
    /\ marks = [p \in TypeParams(kind) |-> IF p \in {"A", "C"} THEN Set ELSE Missing]
    /\ pc = "building"
    /\ net = <<>>
    /\ ctx = None
    /\ params = None
    /\ result = None
    /\ fetched = None
    /\ cfg = None
    /\ handler = None
    /\ wpc = "start"
    /\ req = None
    /\ update = None
    /\ stages = <<>>
    /\ invoked = <<>>
    /\ answered = None
    /\ outcome = None
    /\ client = None
    /\ calls = <<>>
    /\ wire = None
    /\ clock = Some(1)
    /\ runs = <<>>
    /\ decoded = None
    /\ trail = NoTrail

SerializeNext ==
    \/ \E ids \in IdLists : SetIds(ids)
    \/ \E x \in {None} \cup {Some(a) : a \in Assets} :
           \E c \in {None} \cup {Some(n) : n \in Counts} : SetFilter(x, c)
    \/ \E assets \in AssetLists : SetAcceptAsset(assets)
    \/ SerializeParams

SerializeSpec == SerializeInit /\ [][SerializeNext]_vars

----------------------------------------------------------------------------
(* validate(&self) called by hand, at the instant the clock shows *)

\* the builders that implement FieldValidate in the typestate they are in:
\* the invoice builders in every typestate, the check and transfer builders
\* once every mandatory field is Set, the Get*ParamsBuilder and the stats builder
Validated ==
    {k \in Kinds : k \in InvoiceBuilders \cup CheckBuilders \cup TransferBuilders
                              \cup GetParamsBuilders \cup {StatsBuilder}}

HasValidate(k, m) ==
    /\ k \in Validated
    /\ k \in CheckBuilders \cup TransferBuilders => \A p \in TypeParams(k) : m[p] = Set

\* FieldValidate::validate(&self) of builder k holding d, called at `now`
FieldValidate(k, d, now) ==
    IF k = StatsBuilder THEN StatsValidate(d, now)
    ELSE IF k \in GetParamsBuilders THEN GetValidate(d)
    ELSE validate(k, d)

\* how many validate() calls on one draft are followed
MaxRuns == 2

\* builder.validate(): &self is borrowed, the Result is returned and the
\* builder stays as it was
ValidateRun ==
    /\ pc = "building"
    /\ HasValidate(kind, marks)
    /\ Len(runs) < MaxRuns
    /\ UNCHANGED <<bvars, wvars, client, calls, wire, clock, decoded>>
    /\ runs' = Append(runs, [before |-> draft, at |-> Unwrap(clock),
                             returned |-> FieldValidate(kind, draft, Unwrap(clock)),
                             after |-> draft'])

\* time passes
Tick ==
    /\ Unwrap(clock) + 1 \in Times
    /\ clock' = Some(Unwrap(clock) + 1)
    /\ UNCHANGED <<bvars, wvars, client, calls, wire, runs, decoded>>

ValidateInit ==
    /\ kind \in Validated
    /\ Init

ValidateNext ==
    \/ \E a \in Amounts : SetAmount(a)
    \/ \E x \in Assets : SetAsset(x)
    \/ \E n \in Lengths(MaxDescription) : SetDescription(n)
    \/ \E u \in UserIds : SetUserId(u)
    \/ \E n \in SpendIds : SetSpendId(n)
    \/ \E n \in Lengths(MaxComment) : SetComment(n)
    \/ \E c \in Counts : SetCount(c)
    \/ \E t \in Times : SetStartAt(t)
    \/ \E t \in Times : SetEndAt(t)
    \/ Tick
    \/ ValidateRun
    \/ BuildStatsAt(Unwrap(clock))

ValidateSpec == ValidateInit /\ [][ValidateNext]_vars

----------------------------------------------------------------------------
(* Currency codes read from a service response *)

Letters ==
    <<"a", "b", "c", "d", "e", "f", "g", "h", "i", "j", "k", "l", "m",
      "n", "o", "p", "q", "r", "s", "t", "u", "v", "w", "x", "y", "z">>

Capitals ==
    <<"A", "B", "C", "D", "E", "F", "G", "H", "I", "J", "K", "L", "M",
      "N", "O", "P", "Q", "R", "S", "T", "U", "V", "W", "X", "Y", "Z">>

to_uppercase(c) ==
    IF \E i \in DOMAIN Letters : Letters[i] = c
        THEN Capitals[CHOOSE i \in DOMAIN Letters : Letters[i] = c]
    ELSE c

to_lowercase(c) ==
    IF \E i \in DOMAIN Capitals : Capitals[i] = c
        THEN Letters[CHOOSE i \in DOMAIN Capitals : Capitals[i] = c]
    ELSE c

\* #[serde(rename_all = "UPPERCASE")]: the name a variant has on the wire
UPPERCASE(variant) == [i \in DOMAIN variant |-> to_uppercase(variant[i])]

\* the named variants of enum CryptoCurrencyCode
CryptoCurrencyCode ==
    { <<"U", "s", "d", "t">>, <<"T", "o", "n">>, <<"B", "t", "c">>,
      <<"E", "t", "h">>, <<"L", "t", "c">>, <<"B", "n", "b">>,
      <<"T", "r", "x">>, <<"U", "s", "d", "c">>, <<"D", "o", "g", "e">>,
      <<"S", "e", "n", "d">>, <<"J", "e", "t">> }

\* the named variants of enum FiatCurrencyCode
FiatCurrencyCode ==
    { <<"U", "s", "d">>, <<"E", "u", "r">>, <<"R", "u", "b">>,
      <<"B", "y", "n">>, <<"U", "a", "h">>, <<"G", "b", "p">>,
      <<"C", "n", "y">>, <<"K", "g", "s">>, <<"K", "z", "t">>,
      <<"U", "z", "s">>, <<"G", "e", "l">>, <<"T", "r", "y">>,
      <<"A", "m", "d">>, <<"T", "h", "b">>, <<"T", "j", "s">>,
      <<"I", "n", "r">>, <<"B", "r", "l">>, <<"I", "d", "r">>,
      <<"A", "z", "n">>, <<"A", "e", "d">>, <<"P", "l", "n">>,
      <<"I", "l", "s">>, <<"L", "k", "r">> }

\* #[serde(other)] Unknown
Unknown == <<"U", "n", "k", "n", "o", "w", "n">>

\* the derived Deserialize of either enum: the variant whose wire name is the
\* string, and Unknown for every other string
Deserialize(variants, code) ==
    IF \E v \in variants : UPPERCASE(v) = code
        THEN CHOOSE v \in variants : UPPERCASE(v) = code
    ELSE Unknown

\* Result<CurrencyCode, D::Error>
Decoded(enum, variant) == [ok |-> TRUE, enum |-> enum, variant |-> variant]

InvalidCurrencyCode == [ok |-> FALSE, enum |-> "", variant |-> <<>>]

\* deserialize_with of Currency.code
deserialize_currency_code(code) ==
    IF Deserialize(CryptoCurrencyCode, code) # Unknown
        THEN Decoded("Crypto", Deserialize(CryptoCurrencyCode, code))
    ELSE IF Deserialize(FiatCurrencyCode, code) # Unknown
        THEN Decoded("Fiat", Deserialize(FiatCurrencyCode, code))
    ELSE InvalidCurrencyCode

\* the strings the service may send where a currency code stands: the
\* catalog, the catalog in other letter cases and codes the client does not know
WireCodes ==
    LET known == CryptoCurrencyCode \cup FiatCurrencyCode IN
    {UPPERCASE(v) : v \in known} \cup known
        \cup {[i \in DOMAIN v |-> to_lowercase(v[i])] : v \in known}
        \cup {<<"X", "X", "X">>, <<"N", "O", "T">>, UPPERCASE(Unknown), <<>>}

\* what was read: the field, the string on the wire and serde's result
Read(field, code, returned) == [field |-> field, code |-> code, returned |-> returned]

\* a field of type CryptoCurrencyCode: Balance.currency_code, Invoice.asset,
\* ExchangeRate.source, ...
DecodeCrypto(code) ==
    /\ decoded' = Some(Read("CryptoCurrencyCode", code,
                            Decoded("Crypto", Deserialize(CryptoCurrencyCode, code))))
    /\ UNCHANGED <<bvars, wvars, client, calls, wire, clock, runs>>

\* a field of type FiatCurrencyCode: Invoice.fiat, ExchangeRate.target
DecodeFiat(code) ==
    /\ decoded' = Some(Read("FiatCurrencyCode", code,
                            Decoded("Fiat", Deserialize(FiatCurrencyCode, code))))
    /\ UNCHANGED <<bvars, wvars, client, calls, wire, clock, runs>>

\* Currency.code of a getCurrencies entry
DecodeCurrency(code) ==
    /\ decoded' = Some(Read("Currency.code", code, deserialize_currency_code(code)))
    /\ UNCHANGED <<bvars, wvars, client, calls, wire, clock, runs>>

DecodeInit ==
    /\ kind = "CreateInvoiceBuilder"
    /\ Init

DecodeNext ==
    \/ \E code \in WireCodes : DecodeCrypto(code)
    \/ \E code \in WireCodes : DecodeFiat(code)
    \/ \E code \in WireCodes : DecodeCurrency(code)

DecodeSpec == DecodeInit /\ [][DecodeNext]_vars

----------------------------------------------------------------------------
(* Properties *)

TypestateBuilders == ApiBuilders \cup ParamsBuilders

\* finalize has been entered on the current draft
Finalizing == kind \in TypestateBuilders /\ pc # "building"

\* the operation request of an execute() is on the wire
OperationSent == kind \in ApiBuilders /\ \E i \in 1..Len(net) : net[i] = OperationOf(kind)

\* every mandatory field of the builder has gone from Missing to Set
MandatorySet ==
    CASE kind \in InvoiceBuilders ->
            /\ marks["A"] = Set
            /\ marks["C"] = Set
            /\ IsSome(draft.asset) \/ IsSome(draft.fiat)
      [] kind \in CheckBuilders -> marks["A"] = Set /\ marks["M"] = Set
      [] kind \in TransferBuilders ->
            marks["U"] = Set /\ marks["A"] = Set /\ marks["M"] = Set /\ marks["S"] = Set

\* C1: execute/build of the CreateInvoice, CreateCheck and Transfer builders
\* is entered, and a request finalized or sent, only with every mandatory
\* field set (invoice: amount and asset-or-fiat; check: asset and amount;
\* transfer: user_id, asset, amount, spend_id).
C1_FinalizeOnlyWhenMandatorySet ==
    (Finalizing \/ (kind \in TypestateBuilders /\ (IsSome(params) \/ net # <<>>)))
        => MandatorySet

C1_Witness ==
    /\ kind = "TransferBuilder"
    /\ OperationSent
    /\ MandatorySet

\* the ceilings of the invoice strings, stated on the draft
WithinCeilings ==
    /\ IsSome(draft.description) => Unwrap(draft.description) <= 1024
    /\ IsSome(draft.hidden_message) => Unwrap(draft.hidden_message) <= 2048
    /\ IsSome(draft.payload) => Unwrap(draft.payload) <= 4096

\* C2: within one execute/build the local checks (with the description,
\* hidden_message and payload ceilings) are complete before any network call,
\* the rate request is the first call, and the operation request is issued
\* only after it, once validate_with_context has passed on the fetched rates.
C2_StageOrder ==
    kind \in TypestateBuilders =>
        /\ net # <<>> =>
              /\ net[1] = RatesRequest
              /\ validate(kind, draft).ok
              /\ kind \in InvoiceBuilders => WithinCeilings
        /\ OperationSent =>
              /\ Len(net) = 2
              /\ net[2] = OperationOf(kind)
              /\ IsSome(ctx)
              /\ validate_with_context(kind, draft, Unwrap(ctx)).ok
        /\ pc = "await_rates" => net = <<RatesRequest>> /\ IsNone(ctx)

C2_Witness ==
    /\ kind = "CreateInvoiceBuilder"
    /\ OperationSent
    /\ draft.description = Some(1024)
    /\ draft.payload = Some(4096)

Count(seq, x) == Cardinality({i \in 1..Len(seq) : seq[i] = x})

\* C3: an execute/build whose field validation fails issues no network call;
\* otherwise it issues exactly one getExchangeRates GET, builds its context
\* from the response to that very call and sends the operation only if the
\* amount validates against that response; a call that fails validation has
\* issued nothing but that GET.
C3_NetworkEffects ==
    kind \in TypestateBuilders =>
        /\ ~LocalChecks(kind, draft, marks).ok => net = <<>>
        /\ Finalizing /\ LocalChecks(kind, draft, marks).ok =>
              /\ Count(net, RatesRequest) = 1
              /\ net[1] = RatesRequest
        /\ IsSome(ctx) => IsSome(fetched) /\ Unwrap(ctx) = Unwrap(fetched)
        /\ OperationSent =>
              /\ IsSome(fetched)
              /\ validate_with_context(kind, draft, Unwrap(fetched)).ok
        /\ (pc = "done" /\ Unwrap(result).err = "ValidationError") =>
              /\ ~OperationSent
              /\ Len(net) <= 1

C3_Witness ==
    /\ kind = "CreateCheckBuilder"
    /\ pc = "done"
    /\ net = <<RatesRequest>>
    /\ result = Some(UsdRangeError)
    /\ IsSome(fetched)

\* C4: no finalized request of an amount-bearing builder (api or models)
\* carries an amount that is zero or negative.
C4_FinalizedAmountPositive ==
    (kind \in TypestateBuilders /\ IsSome(params)) => Unwrap(params).amount.m > 0

\* the crypto asset the context validation of the current draft is about
HasCryptoAsset ==
    \/ kind \in CheckBuilders \cup TransferBuilders
    \/ kind \in InvoiceBuilders /\ IsSome(draft.asset)

CryptoAsset == IF kind \in InvoiceBuilders THEN Unwrap(draft.asset) ELSE draft.asset

\* positions of the snapshot entries for (asset -> USD)
UsdEntries(rates, asset) ==
    {i \in 1..Len(rates) : rates[i].source = asset /\ rates[i].target = "USD"}

Min(S) == CHOOSE x \in S : \A y \in S : x <= y

\* 1 <= a * r <= 25000 in exact arithmetic on mantissas and scales
WithinUsdBounds(a, r) ==
    /\ Pow10(a.e + r.e) <= a.m * r.m
    /\ a.m * r.m <= 25000 * Pow10(a.e + r.e)

\* C5: with a rate r for (asset -> USD) in the fetched snapshot (the first
\* such entry), the amount passes context validation iff 1 <= a * r <= 25000,
\* both bounds inclusive, and otherwise fails with Range on "amount".
C5_AmountBound ==
    (kind \in TypestateBuilders /\ HasCryptoAsset /\ IsSome(ctx)
        /\ UsdEntries(Unwrap(ctx), CryptoAsset) # {}) =>
        LET rates == Unwrap(ctx)
            r == rates[Min(UsdEntries(rates, CryptoAsset))].rate
        IN  IF WithinUsdBounds(draft.amount, r)
                THEN IsSome(params) /\ result # Some(UsdRangeError)
            ELSE /\ IsNone(params)
                 /\ result = Some(ValidationError("Range",
                                     "Amount must be between 1 and 25000 USD", "amount"))

\* both inclusive bounds are met: 0.5 TON and 12500 TON at 2.0 USD pass
C5_Witness ==
    /\ kind = "TransferBuilder"
    /\ IsSome(params)
    /\ ctx = Some(<< Rate("TON", "USD", Dec(20, 1), TRUE) >>)
    /\ draft.asset = "TON"
    /\ draft.amount \in {Dec(5, 1), Dec(12500, 0)}

\* C6: when the fetched snapshot has no entry from the draft's crypto asset
\* to USD, context validation fails with Missing "exchange_rate_not_found" on
\* field "exchange_rate", whatever the amount, and no operation is sent.
C6_RateNotFound ==
    (kind \in TypestateBuilders /\ HasCryptoAsset /\ IsSome(ctx)
        /\ UsdEntries(Unwrap(ctx), CryptoAsset) = {}) =>
        /\ result = Some(ValidationError("Missing", "exchange_rate_not_found",
                                         "exchange_rate"))
        /\ pc = "done"
        /\ ~OperationSent
        /\ IsNone(params)

\* the asset has a rate, but to EUR only
C6_Witness ==
    /\ kind = "CreateCheckBuilder"
    /\ draft.asset = "TON"
    /\ ctx = Some(<< Rate("BTC", "USD", Dec(5, 1), TRUE), Rate("TON", "EUR", Dec(20, 1), TRUE) >>)
    /\ result = Some(RateNotFound)
    /\ net = <<RatesRequest>>

HasHttpScheme(u) ==
    \/ Len(u) >= 7 /\ <<u[1], u[2], u[3], u[4], u[5], u[6], u[7]>> = Http
    \/ Len(u) >= 8 /\ <<u[1], u[2], u[3], u[4], u[5], u[6], u[7], u[8]>> = Https

\* C7: in every finalized CreateInvoice request paid_btn_name and
\* paid_btn_url are both present or both absent and a present URL starts with
\* http:// or https://; a draft that passes validate() with a URL of another
\* scheme is rejected with Format on "paid_btn_url" before any network call.
C7_PaidButton ==
    kind \in InvoiceBuilders =>
        /\ (IsSome(params) \/ net # <<>>) =>
              /\ IsSome(draft.paid_btn_name) <=> IsSome(draft.paid_btn_url)
              /\ IsSome(draft.paid_btn_url) => HasHttpScheme(Unwrap(draft.paid_btn_url))
        /\ IsSome(params) =>
              /\ IsSome(Unwrap(params).paid_btn_name) <=> IsSome(Unwrap(params).paid_btn_url)
              /\ IsSome(Unwrap(params).paid_btn_url) =>
                     HasHttpScheme(Unwrap(Unwrap(params).paid_btn_url))
        /\ (Finalizing /\ validate(kind, draft).ok /\ IsSome(draft.paid_btn_url)
                /\ ~HasHttpScheme(Unwrap(draft.paid_btn_url))) =>
              /\ result = Some(ValidationError("Format", "paid_btn_url_invalid",
                                               "paid_btn_url"))
              /\ net = <<>>

C7_Witness ==
    /\ kind = "CreateInvoiceBuilder"
    /\ OperationSent
    /\ draft.paid_btn_url = Some(<<"h", "t", "t", "p", ":", "/", "/", "x">>)

\* a finalize (execute, build, or validate of the plain struct) has run on
\* the current invoice draft
InvoiceFinalized == kind \in InvoiceKinds /\ pc # "building"

\* the checks that precede the paid-button check in validate() all pass
EarlierChecksPass ==
    /\ draft.currency_type = Some("crypto") => IsSome(draft.asset)
    /\ draft.currency_type = Some("fiat") => IsSome(draft.fiat)
    /\ draft.amount.m >= 0
    /\ IsSome(draft.description) => Unwrap(draft.description) <= 1024
    /\ IsSome(draft.hidden_message) => Unwrap(draft.hidden_message) <= 2048

C9_AssetXorFiat ==
    (kind \in InvoiceBuilders /\ pc # "building") =>
        /\ IsSome(draft.asset) # IsSome(draft.fiat)
        /\ draft.currency_type = Some("crypto") => IsSome(draft.asset) /\ IsNone(draft.fiat)
        /\ draft.currency_type = Some("fiat") => IsSome(draft.fiat) /\ IsNone(draft.asset)
        /\ draft.currency_type \in {Some("crypto"), Some("fiat")}

C9_Witness ==
    /\ kind = "CreateInvoiceBuilder"
    /\ pc = "await_op"
    /\ draft.currency_type = Some("fiat")
    /\ IsSome(draft.fiat)

CountError == ValidationError("Range", "Count must be between 1 and 1000", "count")

\* C10: a GetInvoices/GetChecks/GetTransfers finalize with a count outside
\* [1,1000] fails with Range on "count" and sends nothing; with a count
\* inside [1,1000], or none, it does not fail for this reason; every Get*
\* request finalized has count absent or within [1,1000].
C10_CountRange ==
    (kind \in GetBuilders /\ pc # "building") =>
        /\ (IsSome(draft.count) /\ (Unwrap(draft.count) < 1 \/ Unwrap(draft.count) > 1000)) =>
              /\ result = Some(CountError)
              /\ net = <<>>
              /\ IsNone(params)
        /\ (IsNone(draft.count) \/ (Unwrap(draft.count) >= 1 /\ Unwrap(draft.count) <= 1000)) =>
              /\ result # Some(CountError)
              /\ IsSome(params)
        /\ IsSome(params) =>
              \/ IsNone(Unwrap(params).count)
              \/ Unwrap(Unwrap(params).count) \in 1..1000

C10_Witness ==
    /\ kind = "GetInvoicesBuilder"
    /\ draft.count = Some(0)
    /\ result = Some(CountError)
    /\ net = <<>>

\* the field of the first check, in the order amount, description,
\* hidden_message, payload, expires_in, paid_btn_url, that the draft violates
FirstViolatedField ==
    IF draft.amount.m <= 0 THEN "amount"
    ELSE IF IsSome(draft.description) /\ Unwrap(draft.description) > 1024 THEN "description"
    ELSE IF IsSome(draft.hidden_message) /\ Unwrap(draft.hidden_message) > 2048
        THEN "hidden_message"
    ELSE IF IsSome(draft.payload) /\ Unwrap(draft.payload) > 4096 THEN "payload"
    ELSE IF IsSome(draft.expires_in)
            /\ (Unwrap(draft.expires_in) < 1 \/ Unwrap(draft.expires_in) > 2678400)
        THEN "expires_in"
    ELSE IF IsSome(draft.paid_btn_url) /\ ~HasHttpScheme(Unwrap(draft.paid_btn_url))
        THEN "paid_btn_url"
    ELSE "none"

\* C11: a finalized CreateInvoice draft that violates local checks ends with
\* exactly the error of the first violated check in the order amount,
\* description, hidden_message, payload, expires_in (Range), paid_btn_url
\* (Format), and nothing is sent; the USD bound is reported only when no
\* local check is violated, after the rate request.
C11_FailFast ==
    (kind \in InvoiceBuilders /\ pc # "building") =>
        /\ FirstViolatedField # "none" =>
              /\ pc = "done"
              /\ net = <<>>
              /\ IsNone(params)
              /\ IsSome(result)
              /\ Unwrap(result).err = "ValidationError"
              /\ Unwrap(result).field = FirstViolatedField
              /\ Unwrap(result).kind =
                     IF FirstViolatedField = "paid_btn_url" THEN "Format" ELSE "Range"
        /\ FirstViolatedField = "none" =>
              /\ net # <<>>
              /\ (IsSome(result) /\ Unwrap(result).err = "ValidationError") =>
                    /\ Unwrap(result) \in {UsdRangeError, RateNotFound}
                    /\ net = <<RatesRequest>>

\* the draft fields a typestate parameter stands for
FieldsOf(k, p) ==
    IF k \in InvoiceBuilders
        THEN CASE p = "A" -> {"amount"}
               [] p = "C" -> {"currency_type", "asset", "fiat"}
               [] p = "P" -> {"paid_btn_name"}
               [] p = "U" -> {"paid_btn_url"}
    ELSE IF k \in CheckBuilders
        THEN CASE p = "A" -> {"asset"}
               [] p = "M" -> {"amount"}
    ELSE CASE p = "U" -> {"user_id"}
           [] p = "A" -> {"asset"}
           [] p = "M" -> {"amount"}
           [] p = "S" -> {"spend_id"}

MarkedFields(k) == UNION {FieldsOf(k, p) : p \in TypeParams(k)}

Changed == {f \in DOMAIN draft : draft'[f] # draft[f]}

\* a setter step on a typestate builder under construction
SetterStep ==
    /\ kind \in TypestateBuilders
    /\ kind' = kind
    /\ pc = "building"
    /\ pc' = "building"

\* C12 as stated: a mandatory setter changes one marker and the value of one
\* field only.
C12_SetterChangesOneField ==
    [][(SetterStep /\ marks' # marks) =>
          /\ \E p \in DOMAIN marks :
                /\ marks[p] = Missing
                /\ marks' = [marks EXCEPT ![p] = Set]
          /\ Cardinality(Changed) <= 1]_vars

\* C12 (amended): a step that sets a typestate parameter turns exactly that
\* marker from Missing to Set, once, and changes no field outside that
\* parameter; the invoice's currency parameter has the two alternative
\* setters asset() and fiat(), each writing its own field and currency_type;
\* the other setters change no marker and no field of a typestate parameter.
C12_MandatorySetterFrame ==
    [][SetterStep =>
          /\ marks' # marks =>
                \E p \in DOMAIN marks :
                    /\ marks[p] = Missing
                    /\ marks' = [marks EXCEPT ![p] = Set]
                    /\ Changed \subseteq FieldsOf(kind, p)
                    /\ ~({"asset", "fiat"} \subseteq Changed)
          /\ marks' = marks => Changed \cap MarkedFields(kind) = {}]_vars

\* fiat() has run: the currency marker is Set, fiat and currency_type are
\* written, the amount and its marker are untouched
C12_Witness ==
    /\ kind = "CreateInvoiceBuilder"
    /\ pc = "building"
    /\ marks = [A |-> Missing, C |-> Set, P |-> Missing, U |-> Missing]
    /\ draft = [NewInvoice EXCEPT !.currency_type = Some("fiat"), !.fiat = Some("USD")]

\* requests on the wire other than the rate fetch
OperationCount(n) == Cardinality({i \in 1..Len(n) : n[i] # RatesRequest})

C14_NoContextValidation ==
    kind \in NoAmountKinds =>
        /\ \A i \in 1..Len(net) : net[i] # RatesRequest
        /\ pc # "await_rates"
        /\ IsNone(ctx)
        /\ IsNone(fetched)

C14_Witness ==
    /\ kind = "DeleteCheckBuilder"
    /\ pc = "done"
    /\ net = <<Request("deleteCheck", "DELETE")>>
    /\ result = Some(Ok)

----------------------------------------------------------------------------
(* Webhook properties *)

InStages(s) == \E i \in 1..Len(stages) : stages[i] = s

StageOrder == <<"signature", "parse", "date", "fresh", "dispatch", "ack", "next">>

StagePos(s) == CHOOSE i \in 1..Len(StageOrder) : StageOrder[i] = s

\* the stages passed so far were passed in the order of StageOrder, each once
StagesInOrder ==
    \A i, j \in 1..Len(stages) : i < j => StagePos(stages[i]) < StagePos(stages[j])

\* handle_update has returned and its result is in outcome
HandleUpdateReturned == wpc = "returned"

Failed(k, msg) == outcome = Some(WebhookError(k, msg))

WellFormed(body) == body.shape = "update" /\ body.request_date.rfc3339

\* age > w, for an age in seconds and a window w of any size
OlderThan(age, w) == w[1] = 0 /\ w[2] = 0 /\ w[3] < Limb \div 2 /\ age > w[3] * Limb + w[4]

\* C15 as stated: the callback is never invoked and no acknowledgement is
\* produced for a body whose signature has not been checked and found valid.
C15_SignatureBeforeDispatch ==
    (invoked # <<>> \/ InStages("ack")) => InStages("signature")

\* C15: the stages are passed in the order signature check, payload parse,
\* request date, freshness check, dispatch, acknowledge; a request that comes
\* through webhook_middleware is parsed, dispatched or acknowledged only after
\* its signature header was checked and found valid, while handle_update
\* called on its own starts at the payload parse and checks no signature.
C15_StageOrder ==
    /\ StagesInOrder
    /\ (InStages("dispatch") \/ InStages("ack")) =>
           (InStages("parse") /\ InStages("date") /\ InStages("fresh"))
    /\ (IsSome(req) /\ Unwrap(req).entry = "middleware"
            /\ (wpc \in {"parse", "date", "fresh", "dispatch", "awaiting", "ack", "returned"}
                    \/ stages # <<>> \/ invoked # <<>>)) =>
           /\ stages # <<>>
           /\ stages[1] = "signature"
           /\ IsSome(Unwrap(req).header)
           /\ verify_signature(Unwrap(handler).api_token, Unwrap(req).body,
                               Unwrap(Unwrap(req).header))
    /\ (IsSome(req) /\ Unwrap(req).entry = "handle_update") => ~InStages("signature")

\* a signed request went through the middleware and every stage
C15_Witness ==
    /\ wpc = "done"
    /\ Unwrap(req).entry = "middleware"
    /\ stages = StageOrder
    /\ invoked = <<"first">>
    /\ outcome = Some(Ok)

\* verify_signature has returned its bool
VerifyReturned == wpc = "done" /\ IsSome(req) /\ Unwrap(req).entry = "verify_signature"

LowerCase(c) ==
    IF \E i \in 1..16 : c = UpperDigits[i]
        THEN HexDigits[CHOOSE i \in 1..16 : c = UpperDigits[i]]
    ELSE c

\* C16 as stated: verify_signature(B, sig) is true exactly when sig is the
\* hex encoding of the MAC of B under the handler token, false for every
\* other string.
C16_TrueOnlyForTheEncoding ==
    VerifyReturned =>
        /\ outcome = Some(Verdict(Unwrap(outcome).ok))
        /\ Unwrap(outcome).ok <=>
               Unwrap(Unwrap(req).header)
                   = HexEncode(Mac(Unwrap(handler).api_token, Unwrap(req).body))

\* C16: verify_signature(B, sig) returns a bool, true exactly when sig spells
\* the hex encoding of the MAC of B under the handler token with each letter
\* in either case; every other string, hex or not, of the same or another
\* length, gives false.
C16_TrueUpToLetterCase ==
    VerifyReturned =>
        LET sig == Unwrap(Unwrap(req).header)
            v == HexEncode(Mac(Unwrap(handler).api_token, Unwrap(req).body))
        IN /\ outcome = Some(Verdict(Unwrap(outcome).ok))
           /\ Unwrap(outcome).ok <=>
                  /\ Len(sig) = Len(v)
                  /\ \A i \in 1..Len(v) : LowerCase(sig[i]) = v[i]

\* the valid signature with its first letter in upper case is accepted
C16_Witness ==
    /\ VerifyReturned
    /\ LET v == HexEncode(Mac(ApiToken, Unwrap(req).body)) IN
       /\ Unwrap(Unwrap(req).header) = [v EXCEPT ![1] = "A"]
       /\ Unwrap(Unwrap(req).header) # v
    /\ outcome = Some(Verdict(TRUE))

\* C17: with a window w configured (600 s by default, or the value given to
\* the expiration setter), handle_update on a well-formed update returns the
\* Expired error if and only if now - request_date > w; an update of age at
\* most w passes the freshness check and is dispatched.
C17_ExpiredIffOlderThanWindow ==
    (HandleUpdateReturned /\ WellFormed(Unwrap(req).body)
         /\ IsSome(Unwrap(handler).webhook_expiration_time)) =>
        LET w == Unwrap(Unwrap(handler).webhook_expiration_time)
            age == Now - Unwrap(req).body.request_date.secs
        IN /\ Failed("Expired", "Webhook request too old") <=> OlderThan(age, w)
           /\ ~OlderThan(age, w) =>
                  /\ InStages("fresh")
                  /\ IsSome(Unwrap(handler).update_handler) =>
                         invoked = <<Unwrap(Unwrap(handler).update_handler)>>
           /\ OlderThan(age, w) => (invoked = <<>> /\ ~InStages("fresh"))

\* an update exactly as old as the custom window is dispatched and acknowledged
C17_Witness ==
    /\ HandleUpdateReturned
    /\ Unwrap(handler).webhook_expiration_time = Some(from_secs(CustomExpiration))
    /\ Unwrap(req).body = Body("update", Rfc3339(Now - CustomExpiration))
    /\ invoked = <<"first">>
    /\ outcome = Some(Ok)

\* C18: with expiration disabled (expiration_time = None through
\* disable_expiration) handle_update skips the freshness check: a well-formed
\* update of any age is never rejected as Expired, it is dispatched.
C18_DisabledNeverExpires ==
    (HandleUpdateReturned /\ WellFormed(Unwrap(req).body)
         /\ IsNone(Unwrap(handler).webhook_expiration_time)) =>
        /\ ~Failed("Expired", "Webhook request too old")
        /\ IsSome(Unwrap(handler).update_handler) => invoked # <<>>

\* C19: handle_update does not panic on malformed input: a body that does
\* not deserialize gives an InvalidPayload error with the parse diagnostic, a
\* request_date that is no RFC 3339 timestamp gives an InvalidPayload error,
\* and in both cases the callback is not invoked.
C19_MalformedIsInvalidPayload ==
    /\ IsSome(req) => wpc # "panicked"
    /\ (HandleUpdateReturned /\ ~WellFormed(Unwrap(req).body)) =>
           LET body == Unwrap(req).body IN
           /\ invoked = <<>>
           /\ ~InStages("dispatch") /\ ~InStages("ack")
           /\ body.shape \in Malformed =>
                  Failed("InvalidPayload", Diagnostic(body.shape))
           /\ body.shape = "update" => Failed("InvalidPayload", "Invalid request date")

\* an update with an unparsable request_date was refused, callback registered
C19_Witness ==
    /\ HandleUpdateReturned
    /\ Unwrap(req).body = Body("update", NotADate)
    /\ IsSome(Unwrap(handler).update_handler)
    /\ Failed("InvalidPayload", "Invalid request date")
    /\ invoked = <<>>

\* C20: in one handle_update call the callback is invoked at most once and
\* only after the payload parsed, the request_date parsed and the freshness
\* check passed; a call that fails returns a typed error at the failing
\* stage: no acknowledgement, no later stage, no second invocation, and no
\* invocation at all when a stage before the dispatch failed.
C20_AtMostOnceShortCircuit ==
    /\ Len(invoked) <= 1
    /\ invoked # <<>> =>
           (InStages("parse") /\ InStages("date") /\ InStages("fresh") /\ StagesInOrder)
    /\ (HandleUpdateReturned /\ ~Unwrap(outcome).ok) =>
           /\ Unwrap(outcome).err \in {"WebhookError", "HttpError"}
           /\ ~InStages("ack")
           /\ ~InStages("fresh") => invoked = <<>>
           /\ invoked = <<>> => ~InStages("dispatch")
    /\ (HandleUpdateReturned /\ Unwrap(outcome).ok) =>
           (InStages("ack") /\ InStages("fresh"))

\* the callback ran once and failed: its error is returned, nothing acknowledged
C20_Witness ==
    /\ HandleUpdateReturned
    /\ invoked = <<"second">>
    /\ outcome = Some(HttpError)
    /\ stages = <<"parse", "date", "fresh", "dispatch">>

\* a well-formed body no older than the window the handler applies
Fresh(h, body) ==
    /\ WellFormed(body)
    /\ ~OlderThan(Now - body.request_date.secs, ExpirationWindow(h))

\* C21: on a fresh, well-formed update, a registered callback that returns an
\* error makes handle_update return that same error, with no
\* acknowledgement; a callback that returns Ok, or no registered callback,
\* makes handle_update return the acknowledgement.
C21_HandlerErrorPropagates ==
    (HandleUpdateReturned /\ Fresh(Unwrap(handler), Unwrap(req).body)) =>
        IF IsNone(Unwrap(handler).update_handler)
            THEN /\ invoked = <<>>
                 /\ IsNone(answered)
                 /\ outcome = Some(Ok)
                 /\ InStages("ack")
        ELSE /\ IsSome(answered)
             /\ Unwrap(answered).ok => (outcome = Some(Ok) /\ InStages("ack"))
             /\ ~Unwrap(answered).ok => (outcome = answered /\ ~InStages("ack"))

\* the callback refused the update with its own error, which is what came back
C21_Witness ==
    /\ HandleUpdateReturned
    /\ Fresh(Unwrap(handler), Unwrap(req).body)
    /\ invoked = <<"first">>
    /\ answered = Some(WebhookError("InvalidPayload", "rejected by the handler"))
    /\ outcome = answered

\* C22 as stated: the callback slot is set at most once and read-only
\* thereafter: no on_update or handle_update step replaces a registered
\* callback by another.
C22_CallbackNeverReplaced ==
    [][(IsSome(handler) /\ IsSome(Unwrap(handler).update_handler)) =>
           (IsSome(handler')
                /\ Unwrap(handler').update_handler = Unwrap(handler).update_handler)]_vars

----------------------------------------------------------------------------
(* Client properties *)

\* what a handle_update call returns when it runs alone
AloneUpdate(h, body, answer) ==
    IF body.shape \in Malformed THEN WebhookError("InvalidPayload", Diagnostic(body.shape))
    ELSE IF ~body.request_date.rfc3339
        THEN WebhookError("InvalidPayload", "Invalid request date")
    ELSE IF OlderThan(Now - body.request_date.secs, ExpirationWindow(h))
        THEN WebhookError("Expired", "Webhook request too old")
    ELSE IF IsNone(h.update_handler) \/ Unwrap(answer).ok THEN Ok
    ELSE Unwrap(answer)

\* what a finished call returns when it runs alone on the same inputs
Alone(c, h, call) ==
    IF call.op = "handle_update" THEN AloneUpdate(h, Unwrap(call.arg), call.answer)
    ELSE IF ~IsHeaderValue(c.api_token) THEN Failure("InvalidHeaderValue")
    ELSE Decide(Unwrap(call.answer))

FinishedAsAlone ==
    \A i \in CallIds :
        calls[i].pc = "done" =>
            calls[i].result = Some(Alone(Unwrap(client), Unwrap(handler), calls[i]))

\* C23: in every interleaving of concurrent make_request and handle_update
\* calls on one shared client and one shared handler, a step of one call
\* changes neither the client, nor the handler, nor the state of another
\* call, and each finished call returned what it returns when run alone.
C23_CallsIndependent ==
    [][/\ client' = client
       /\ handler' = handler
       /\ \A i, j \in CallIds : (i # j /\ calls'[i] # calls[i]) => calls'[j] = calls[j]
       /\ FinishedAsAlone']_vars

\* one handle_update call has failed in its callback while another is still
\* waiting for the same callback
C23_Witness ==
    /\ calls # <<>>
    /\ calls[1].op = "handle_update"
    /\ calls[1].pc = "done"
    /\ calls[1].result = Some(HttpError)
    /\ calls[2].op = "handle_update"
    /\ calls[2].pc = "awaiting"

\* the make_request calls that got a response, with the response and the result
Answered ==
    {<<Unwrap(calls[i].answer), Unwrap(calls[i].result)>> :
         i \in {j \in DOMAIN calls : /\ calls[j].op = "make_request"
                                     /\ calls[j].pc = "done"
                                     /\ IsSome(calls[j].answer)}}

Received(r) == r.sent /\ r.status = 200 /\ r.readable

\* the body is no envelope: no JSON, no ok, or a result of the wrong shape
Undecodable(b) == b.json # "object" \/ b.ok = None \/ b.result = Some("wrong_shape")

\* C25: a success-status response whose body does not decode as the envelope
\* (empty, malformed, or a result of the wrong shape) gives ApiError with
\* code -1, message "Failed to parse API response" and the decode failure in
\* details, and no result value.
C25_UndecodableIsParseError ==
    \A a \in Answered :
        (Received(a[1]) /\ Undecodable(a[1].body)) =>
            /\ a[2].err = "ApiError"
            /\ a[2].code = 0 - 1
            /\ a[2].message = "Failed to parse API response"
            /\ IsSome(a[2].details)
            /\ ~a[2].ok
            /\ IsNone(a[2].value)

C25_Witness ==
    \E a \in Answered :
        /\ Received(a[1])
        /\ a[1].body = Envelope(Some(TRUE), Some("wrong_shape"), None, None)
        /\ a[2] = ApiErrorOf(0 - 1, "Failed to parse API response",
                             Some("invalid type: string, expected a map"))

\* C26: a decoded envelope with ok = false gives ApiError with code
\* error_code (0 when absent), message error ("" when absent) and no
\* details, also when the envelope carries a result.
C26_NotOkIsApiError ==
    \A a \in Answered :
        (Received(a[1]) /\ ~Undecodable(a[1].body) /\ a[1].body.ok = Some(FALSE)) =>
            /\ a[2].err = "ApiError"
            /\ a[2].code = (IF a[1].body.error_code = None THEN 0
                            ELSE a[1].body.error_code[1])
            /\ a[2].message = (IF a[1].body.error = None THEN "" ELSE a[1].body.error[1])
            /\ a[2].details = None
            /\ IsNone(a[2].value)

\* an error envelope without error fields and with a result
C26_Witness ==
    \E a \in Answered :
        /\ Received(a[1])
        /\ a[1].body = Envelope(Some(FALSE), Some("value"), None, None)
        /\ a[2] = ApiErrorOf(0, "", None)

\* C27: a decoded envelope with ok = true and no result gives NoResult; a
\* value is returned only for a success status, a decoded envelope, ok = true
\* and a result that is present.
C27_NoResultIsAnError ==
    \A a \in Answered :
        /\ (Received(a[1]) /\ ~Undecodable(a[1].body) /\ a[1].body.ok = Some(TRUE)
                /\ a[1].body.result \in {None, Some("null")}) =>
               a[2] = Failure("NoResult")
        /\ (a[2].ok \/ IsSome(a[2].value)) =>
               /\ Received(a[1])
               /\ ~Undecodable(a[1].body)
               /\ a[1].body.ok = Some(TRUE)
               /\ a[1].body.result = Some("value")
               /\ a[2].value = a[1].body.result

C27_Witness ==
    \E a \in Answered :
        /\ Received(a[1])
        /\ a[1].body = Envelope(Some(TRUE), None, None, None)
        /\ a[2] = Failure("NoResult")

\* C28: every request make_request issues carries the header
\* Crypto-Pay-Api-Token with the client's API token as its value, whatever
\* the custom headers are.
C28_TokenHeaderOnEveryRequest ==
    \A i \in DOMAIN calls :
        (calls[i].op = "make_request" /\ IsSome(calls[i].sent)) =>
            LET headers == Unwrap(calls[i].sent).headers IN
            /\ TokenHeader \in DOMAIN headers
            /\ headers[TokenHeader] = Unwrap(client).api_token

(* Serialization properties *)

\* the optional fields of the params of a builder, and the one that is a list
OptionalFields(k) == IF k \in GetApiBuilders THEN {"asset", "ids", "count"} ELSE InvoiceOptionals

ListField(k) == IF k \in GetApiBuilders THEN "ids" ELSE "accept_asset"

\* the JSON key a field is written under
KeyOf(k, f) == IF f = "ids" THEN IdsKey(k) ELSE f

\* a request was finalized and its body written
Serialized == kind \in ListKinds /\ IsSome(params) /\ IsSome(wire)

\* C29: in the serialized body of every finalized request, an unset optional
\* field and an empty list never appear as a key: neither "" nor [] is
\* written for invoice_ids, check_ids, transfer_ids or accept_asset.
C29_OmissionInvariant ==
    Serialized =>
        LET p == Unwrap(params)
            body == Unwrap(wire)
        IN /\ \A f \in OptionalFields(kind) :
                  p[f] = None => KeyOf(kind, f) \notin DOMAIN body
           /\ p[ListField(kind)] = Some(<<>>) =>
                  KeyOf(kind, ListField(kind)) \notin DOMAIN body
           /\ KeyOf(kind, ListField(kind)) \in DOMAIN body =>
                  body[KeyOf(kind, ListField(kind))].v # <<>>

\* the pieces of a string between its separators
RECURSIVE Split(_, _)
Split(chars, sep) ==
    IF \A i \in 1..Len(chars) : chars[i] # sep THEN <<chars>>
    ELSE LET at == CHOOSE i \in 1..Len(chars) :
                       chars[i] = sep /\ \A j \in 1..(i - 1) : chars[j] # sep
         IN <<SubSeq(chars, 1, at - 1)>> \o Split(SubSeq(chars, at + 1, Len(chars)), sep)

\* C30: a non-empty id list (check_ids, invoice_ids, transfer_ids) is written
\* as one JSON string, never an array: its elements in their original order,
\* each in decimal, joined by commas with no spaces.
C30_IdsAreOneCommaJoinedString ==
    (Serialized /\ kind \in GetApiBuilders /\ ~should_skip_ids(Unwrap(params).ids)) =>
        LET ids == Unwrap(Unwrap(params).ids)
            body == Unwrap(wire)
        IN /\ IdsKey(kind) \in DOMAIN body
           /\ body[IdsKey(kind)].t = "string"
           /\ \A i \in 1..Len(body[IdsKey(kind)].v) : body[IdsKey(kind)].v[i] # " "
           /\ Split(body[IdsKey(kind)].v, ",") = [i \in 1..Len(ids) |-> to_string(ids[i])]

\* [1, 2] was written as "1,2" and, in another request, [123] as "123"
C30_Witness ==
    /\ Serialized
    /\ kind = "GetChecksBuilder"
    /\ \/ /\ Unwrap(params).ids = Some(<<1, 2>>)
          /\ Unwrap(wire)["check_ids"] = JsonString(<<"1", ",", "2">>)
       \/ /\ Unwrap(params).ids = Some(<<123>>)
          /\ Unwrap(wire)["check_ids"] = JsonString(<<"1", "2", "3">>)

(* Builder properties: context validation *)

\* a CreateInvoice draft priced in fiat, handed to execute
FiatPriced ==
    kind = "CreateInvoiceBuilder" /\ IsSome(draft.fiat) /\ IsNone(draft.asset) /\ pc # "building"

\* C35: for a CreateInvoice draft priced in fiat (fiat set, no asset) execute
\* issues the getExchangeRates GET once field validation has passed, sends
\* createInvoice for every such amount whatever the snapshot holds, and sends
\* nothing more when the rate fetch itself fails.
C35_FiatSkipsUsdBound ==
    FiatPriced =>
        IF ~LocalChecks(kind, draft, marks).ok THEN net = <<>>
        ELSE /\ Len(net) >= 1 /\ net[1] = RatesRequest
             /\ IsSome(ctx) =>
                    /\ params = Some(FinalizedParams(kind, draft))
                    /\ net = <<RatesRequest, OperationOf(kind)>>
                    /\ result \notin {Some(RateNotFound), Some(UsdRangeError)}
             /\ (pc = "done" /\ IsNone(ctx)) =>
                    /\ net = <<RatesRequest>>
                    /\ result \in {Some(e) : e \in RequestErrors}
                    /\ IsNone(params)

\* an amount far above the bound at any rate is sent with an empty snapshot
C35_Witness ==
    /\ FiatPriced
    /\ draft.amount = Dec(12500, 0)
    /\ ctx = Some(<<>>)
    /\ net = <<RatesRequest, Request("createInvoice", "POST")>>

\* C36: validate_amount uses the first snapshot entry from the asset to USD:
\* the verdict is the one that entry's rate gives, whether or not the entry
\* is marked valid and whatever later entries for the same pair say.
C36_FirstUsdEntryDecides ==
    (kind \in TypestateBuilders /\ HasCryptoAsset /\ IsSome(ctx)
        /\ UsdEntries(Unwrap(ctx), CryptoAsset) # {}) =>
        LET rates == Unwrap(ctx)
            first == rates[Min(UsdEntries(rates, CryptoAsset))]
        IN  /\ IsSome(params) <=> WithinUsdBounds(draft.amount, first.rate)
            /\ IsNone(params) => result = Some(UsdRangeError)

\* 0.5 TON fails on the first TON->USD entry (0.5, not valid) although the
\* later valid entry (2.0) would accept it
C36_Witness ==
    /\ kind = "CreateCheckBuilder"
    /\ draft.asset = "TON"
    /\ draft.amount = Dec(5, 1)
    /\ IsSome(ctx)
    /\ Len(Unwrap(ctx)) = 4
    /\ ~Unwrap(ctx)[2].is_valid
    /\ Unwrap(ctx)[2].rate = Dec(5, 1)
    /\ Unwrap(ctx)[3].rate = Dec(20, 1)
    /\ result = Some(UsdRangeError)

(* Webhook properties: configuration *)

\* C40: build() of a WebhookHandlerConfigBuilder made by any public
\* constructor and any sequence of expiration_time / disable_expiration calls
\* never panics and returns a handler that carries the client's token and
\* the expiration set last.
C40_BuildAlwaysSucceeds ==
    [][(wpc = "config" /\ wpc' # "config") =>
           /\ wpc' = "idle"
           /\ handler' = Some([api_token |-> ApiToken,
                               webhook_expiration_time |-> Unwrap(cfg).expiration_time,
                               update_handler |-> None])]_vars

(* Webhook properties: the expiration window at full width *)

\* handle_update was called on a well-formed body and is over
HandledWellFormed ==
    /\ IsSome(req)
    /\ Unwrap(req).entry = "handle_update"
    /\ WellFormed(Unwrap(req).body)
    /\ wpc \in {"returned", "panicked"}

\* C37: an update whose request_date lies in the future (negative age) is
\* never rejected as Expired, for every configured window, and is dispatched
\* to the handler like a fresh update.
C37_FutureNeverExpired ==
    (HandledWellFormed /\ Now - Unwrap(req).body.request_date.secs < 0) =>
        /\ wpc = "returned"
        /\ ~Failed("Expired", "Webhook request too old")
        /\ InStages("fresh")
        /\ IsSome(Unwrap(handler).update_handler) =>
               invoked = <<Unwrap(Unwrap(handler).update_handler)>>

\* C38: the conversion of the window to a signed duration preserves it for
\* every Duration: with a window w set, an update of non-negative age a is
\* rejected as Expired iff a > w, windows of 2^63 seconds or more included,
\* and handle_update does not panic.
C38_WindowPreservedByCast ==
    (HandledWellFormed /\ IsSome(Unwrap(handler).webhook_expiration_time)
         /\ Now - Unwrap(req).body.request_date.secs >= 0) =>
        LET w == Unwrap(Unwrap(handler).webhook_expiration_time)
            a == Now - Unwrap(req).body.request_date.secs
        IN /\ wpc # "panicked"
           /\ Failed("Expired", "Webhook request too old") <=> OlderThan(a, w)

(* Webhook properties: the axum middleware *)

----------------------------------------------------------------------------
(* Builder properties: validation against the clock *)

\* a build() of the stats builder returns in this step
StatsBuilt == kind = StatsBuilder /\ pc = "building" /\ pc' = "done"

\* C33: GetStatsParamsBuilder.build fails with a Range error on "start_at"
\* whenever start_at is later than the current time, otherwise with a Range
\* error on "end_at" whenever both dates are set and end_at is earlier than
\* start_at, and every other combination builds the params
C33_StatsBuildCases ==
    [][StatsBuilt =>
        LET now == Unwrap(clock)
            r == Unwrap(result')
        IN  IF IsSome(draft.start_at) /\ Unwrap(draft.start_at) > now
                THEN ~r.ok /\ r.kind = "Range" /\ r.field = "start_at" /\ params' = None
            ELSE IF /\ IsSome(draft.start_at)
                    /\ IsSome(draft.end_at)
                    /\ Unwrap(draft.end_at) < Unwrap(draft.start_at)
                THEN ~r.ok /\ r.kind = "Range" /\ r.field = "end_at" /\ params' = None
            ELSE r.ok /\ params' = Some(draft)]_vars

\* a build was refused on start_at although end_at was earlier than start_at too
C33_Witness ==
    /\ kind = StatsBuilder
    /\ pc = "done"
    /\ IsSome(result)
    /\ Unwrap(result).field = "start_at"
    /\ IsSome(draft.end_at)
    /\ Unwrap(draft.end_at) < Unwrap(draft.start_at)

\* C32: two validate() runs on drafts with identical field contents return
\* the same outcome (both Ok, or errors with the same kind and field),
\* whenever they run, and each leaves the draft as it was
C32_ValidateDeterministic ==
    \A i \in DOMAIN runs : \A j \in DOMAIN runs :
        /\ runs[i].after = runs[i].before
        /\ runs[i].before = runs[j].before =>
              /\ runs[i].returned.ok = runs[j].returned.ok
              /\ runs[i].returned.kind = runs[j].returned.kind
              /\ runs[i].returned.field = runs[j].returned.field

----------------------------------------------------------------------------
(* Builder properties: the order of the setter calls *)

\* the builders with setters in the order the caller likes
SetterBuilders == Kinds \ ({PlainInvoice} \cup DeleteBuilders)

\* the value a field holds when its setter's latest call is t[f], else the
\* value new() gave it
Latest(t, f, default) == IF IsSome(t[f]) THEN Unwrap(t[f]) ELSE default

\* the draft as a function of the latest value of each setter alone: no order
\* of the calls enters it
FromFinal(k, t) ==
    IF k \in InvoiceBuilders
        THEN [currency_type |-> IF IsSome(t["fiat"]) THEN Some("fiat") ELSE Some("crypto"),
              asset |-> t["asset"], fiat |-> t["fiat"],
              amount |-> Latest(t, "amount", DecZero),
              description |-> t["description"],
              hidden_message |-> t["hidden_message"],
              paid_btn_name |-> t["paid_btn_name"],
              paid_btn_url |-> t["paid_btn_url"],
              payload |-> t["payload"], expires_in |-> t["expires_in"]]
    ELSE IF k \in CheckBuilders
        THEN [asset |-> Latest(t, "asset", "TON"), amount |-> Latest(t, "amount", DecZero)]
    ELSE IF k \in TransferBuilders
        THEN [user_id |-> Latest(t, "user_id", 0), asset |-> Latest(t, "asset", "TON"),
              amount |-> Latest(t, "amount", DecZero),
              spend_id |-> Latest(t, "spend_id", 0), comment |-> t["comment"]]
    ELSE IF k = StatsBuilder
        THEN [start_at |-> t["start_at"], end_at |-> t["end_at"]]
    ELSE [asset |-> t["asset"], count |-> t["count"]]

\* the setters declared on type parameter p of builder k
SettersOf(k, p) ==
    IF k \in InvoiceBuilders
        THEN CASE p = "A" -> {"amount"}
               [] p = "C" -> {"asset", "fiat"}
               [] p = "P" -> {"paid_btn_name"}
               [] p = "U" -> {"paid_btn_url"}
    ELSE CASE p = "A" -> {"asset"}
           [] p = "M" -> {"amount"}
           [] p = "U" -> {"user_id"}
           [] p = "S" -> {"spend_id"}

\* C34: the builder's state and what finalize produces are determined by the
\* set of setters called and the latest value of each, whatever the order of
\* the calls: a repeated optional setter holds its last value
C34_SetterOrderIrrelevant ==
    kind \in SetterBuilders =>
        /\ draft = FromFinal(kind, trail)
        /\ \A p \in DOMAIN marks :
              marks[p] = Set <=> \E f \in SettersOf(kind, p) : IsSome(trail[f])
        /\ IsSome(params) => Unwrap(params) = FinalizedParams(kind, FromFinal(kind, trail))
        /\ (kind \in ApiBuilders \cup ParamsBuilders /\ pc = "done" /\ net = <<>>) =>
              result = Some(LocalChecks(kind, FromFinal(kind, trail), marks))

\* a transfer went out with the longest comment as the latest one set, all
\* four mandatory setters called
C34_Witness ==
    /\ kind = "TransferBuilder"
    /\ IsSome(params)
    /\ trail["comment"] = Some(MaxComment)
    /\ Unwrap(params).comment = Some(MaxComment)
    /\ \A p \in DOMAIN marks : marks[p] = Set

----------------------------------------------------------------------------
(* Response properties: currency codes *)

\* the code is a name of the closed catalog, in the catalog's letter case
InCatalog(code) ==
    \E v \in CryptoCurrencyCode \cup FiatCurrencyCode : UPPERCASE(v) = code

\* C31: a currency code that is not in the closed catalog, a known code in
\* another letter case included, decodes to the Unknown variant and never to
\* a failure, in every field that holds a currency code, Currency.code included
C31_UnknownNeverFails ==
    (IsSome(decoded) /\ ~InCatalog(Unwrap(decoded).code)) =>
        /\ Unwrap(decoded).returned.ok
        /\ Unwrap(decoded).returned.variant = Unknown

====
